---- MODULE Spec2Model ----
(***************************************************************************)
(* Model of the Proxmox device monitor of com.magnusri.homeyproxmox:       *)
(* drivers/proxmox/device.js (the revision that carries the flow-card      *)
(* triggers, lines 501..1058), the action cards of drivers/proxmox/        *)
(* driver.js, lib/proxmox-api.js and the credential store of app.js.        *)
(*                                                                         *)
(* Units.  JavaScript numbers are modelled by scaled integers:             *)
(*   - percentages and uptime hours, which the code rounds to one decimal, *)
(*     are held in tenths (90 % is 900, 85 % is 850);                      *)
(*   - I/O rates, which the code rounds to two decimals, are held in       *)
(*     hundredths of MB/s (10 MB/s is 1000, 8 MB/s is 800);                *)
(*   - status.cpu, a fraction, is held in ten-thousandths (0.92 is 9200);  *)
(*   - clock readings are in milliseconds and move in whole seconds, so    *)
(*     that intervalSeconds is an integer;                                 *)
(*   - counters are bytes.                                                 *)
(* Arithmetic is exact: binary floating-point error is not modelled.       *)
(*                                                                         *)
(* A JavaScript null / never-written capability is Null, the empty tuple;  *)
(* a present value v is Val(v), the 1-tuple.  A status object is a         *)
(* function whose DOMAIN holds the fields that are not undefined.          *)
(*                                                                         *)
(* Time.  The code uses Date.now() and previousCounters.timestamp only in   *)
(* their difference (updateIOMetrics, line 561), so the model keeps that   *)
(* difference, sinceTimestamp, instead of the two readings: a clock step   *)
(* changes it, and storing currentTime as the timestamp (line 598) makes   *)
(* it 0.  The stored timestamp is unchanged by a cycle exactly when the    *)
(* cycle leaves sinceTimestamp as it found it.                             *)
(*                                                                         *)
(* Capability writes (setCapabilityValue) and store writes                 *)
(* (setStoreValue) succeed and do nothing but write: the sink is the       *)
(* platform's.  The driver and its trigger cards exist (driver.js 14..21). *)
(* getData() hands out the device's one data object, so that the action    *)
(* card's assignment to data.node is the device's.                         *)
(*                                                                         *)
(* Specifications: Spec is the poll cycle of one device, SpecRate calls     *)
(* calculateRate on drawn arguments, SpecCmd serves start, stop and        *)
(* restart requests of one device, one request at a time, each handler     *)
(* split at its awaited cluster calls.  SpecSched is the scheduling of     *)
(* the poll cycles of two devices, each cycle split at its awaited status  *)
(* request (FairSched adds fairness); SpecPair calls findVMNode and the    *)
(* list_devices handler on drawn cluster answers; SpecReq delivers the     *)
(* events of one https exchange to the handlers of ProxmoxAPI.request.     *)
(* SpecCred calls getCredentials and setCredentials of app.js; SpecTwo     *)
(* runs whole cycles of two devices side by side; SpecRace interleaves two *)
(* cycles of one device at their awaits.                                   *)
(***************************************************************************)
EXTENDS Integers, Sequences, FiniteSets, TLC

VARIABLES
  data,              \* this.getData(): [type]
  sinceTimestamp,    \* Date.now() - this.previousCounters.timestamp, ms
  cap,               \* capability values (setCapabilityValue / getCapabilityValue)
  previousCounters,  \* this.previousCounters: the four counters
  previousState,     \* this.previousState
  thresholdTracking, \* this.thresholdTracking
  emitted,           \* trigger cards fired by the most recent poll cycle
  outcome,           \* how the most recent poll cycle ended
  cycle,             \* the number of poll cycles so far, modulo 2
  observed,          \* isRunning, cpuPercent, memPercent of the most recent successful cycle
  rateArgs,          \* arguments of a direct call of calculateRate
  rateResult,        \* its result
  location,          \* the cluster: the node that holds the guest, or Null
  store,             \* the device store (setStoreValue): [node]
  pc,                \* where the request handler in flight stands
  request,           \* the request being served, or served last
  caught,            \* restart_vm: the error of the first restart command
  searchAt,          \* findVMNode: index of the node being queried
  newNode,           \* restart_vm: what findVMNode returned
  issued,            \* start/stop/restart commands sent for the request, in order
  searches,          \* findVMNode calls made for the request
  inflight,          \* cluster calls awaiting their answer
  scheduled,         \* delays of the setTimeout calls made for the request
  timers,            \* refresh timers pending
  result,            \* how the request ended: Null while none has
  phase,             \* per device: "new", "ready" (onInit has run) or "deleted"
  pollInterval,      \* per device: this.pollInterval, the delay of the timer set, or Null
  settings,          \* this device's settings for cadence and thresholds
  fetching,          \* per device: status requests awaiting their answer
  lastCycle,         \* per device: how the cycle that ended last went
  answers,           \* pairing: what the cluster answers to the list requests
  located,           \* what findVMNode returned
  devices,           \* what the list_devices handler returned
  exchange,          \* request: status code and body chunks the server sends
  stage,             \* request: how far the exchange has come
  buffer,            \* request: `data`, the chunks received so far
  calls,             \* request: the calls of resolve and reject, in order
  stored,            \* app: the 'proxmox_credentials' setting, or Null
  accepted,          \* app: the credentials of the last setCredentials that returned true
  returned,          \* app: the last credentials call: its argument, what it returned
                     \* (`result` of setCredentials, `value` of getCredentials)
  peer,              \* a second device: its fields, capability values and clock
  lastRunEvent,      \* the run-state card this device fired last, or "none"
  racing             \* the cycles of this device under way, each at an await

\* The state of the request handlers and of the cluster they talk to.
cmdVars == <<location, store, pc, request, caught, searchAt, newNode, issued, searches,
             inflight, scheduled, timers, result>>

\* The timers and the cycles in flight of the devices.
schedVars == <<phase, pollInterval, settings, fetching, lastCycle>>

\* A pairing session and a search for a guest.
pairVars == <<answers, located, devices>>

\* One call of ProxmoxAPI.request.
reqVars == <<exchange, stage, buffer, calls>>

\* The app's credential store, a second device, cycles at their awaits.
apartVars == <<stored, accepted, returned, peer, lastRunEvent, racing>>

vars == <<data, sinceTimestamp, cap, previousCounters, previousState, thresholdTracking,
          emitted, outcome, cycle, observed, rateArgs, rateResult, location, store, pc,
          request, caught, searchAt, newNode, issued, searches, inflight, scheduled,
          timers, result, phase, pollInterval, settings, fetching, lastCycle,
          answers, located, devices, exchange, stage, buffer, calls,
          stored, accepted, returned, peer, lastRunEvent, racing>>

----------------------------------------------------------------------------
(* Bounds *)

\* The clock runs at most MaxElapsed seconds ahead of the stored timestamp,
\* and is set back at most MaxSetBack seconds behind it.
MaxElapsed == 1
MaxSetBack == 1

----------------------------------------------------------------------------
(* Values *)

Null == <<>>
Val(v) == <<v>>

MiB == 1048576

requiredCapabilities ==
  {"onoff", "measure_cpu", "measure_memory", "measure_disk", "sensor_uptime",
   "measure_network_in", "measure_network_out", "measure_disk_read",
   "measure_disk_write", "alarm_connectivity", "alarm_heat", "alarm_generic"}

DeviceTypes == {"node", "lxc", "vm", "storage"}

\* Math.round(n / d) for d > 0: the nearest integer, a half rounded up.
MathRound(n, d) ==
  LET q == n \div d
      r == n % d
  IN  IF 2 * r >= d THEN q + 1 ELSE q

\* roundToOneDecimal(n / d), in tenths.
roundToOneDecimal(n, d) == MathRound(n * 10, d)

\* roundToTwoDecimals(n / d), in hundredths: Math.round(n / d * 100).  The
\* whole part of n / d is split off first, which leaves the value unchanged
\* and keeps the products small.
roundToTwoDecimals(n, d) ==
  LET q == n \div d
      r == n % d
  IN  q * 100 + MathRound(r * 100, d)

\* calculateRate without the division by the interval.
calculateRate_perPoll(currentValue, previousValue, intervalSeconds) ==
  IF previousValue = Null
    THEN 0
    ELSE LET delta == currentValue - previousValue[1]
         IN  IF delta < 0
               THEN 0
               ELSE roundToTwoDecimals(delta, 1024 * 1024)

\* calculateRate with a null previous value read as 0, as JavaScript's
\* subtraction does.
calculateRate_nullAsZero(currentValue, previousValue, intervalSeconds) ==
  LET delta == currentValue - (IF previousValue = Null THEN 0 ELSE previousValue[1])
  IN  IF delta < 0
        THEN 0
        ELSE roundToTwoDecimals(delta, intervalSeconds * (1024 * 1024))

\* calculateRate with the magnitude of a negative delta instead of 0.
calculateRate_absDelta(currentValue, previousValue, intervalSeconds) ==
  IF previousValue = Null
    THEN 0
    ELSE LET delta == currentValue - previousValue[1]
         IN  roundToTwoDecimals(IF delta < 0 THEN -delta ELSE delta,
                                intervalSeconds * (1024 * 1024))

\* calculateRate: previousValue is Null or Val(bytes); the result is in
\* hundredths of MB/s.
calculateRate(currentValue, previousValue, intervalSeconds) ==
  IF previousValue = Null
    THEN 0
    ELSE LET delta == currentValue - previousValue[1]
         IN  IF delta < 0
               THEN 0
               ELSE roundToTwoDecimals(delta, intervalSeconds * (1024 * 1024))

\* getCapabilityValue(name) || 0
OrZero(v) == IF v = Null THEN 0 ELSE v[1]

----------------------------------------------------------------------------
(* updateAlarms *)

\* updateAlarms with the connectivity alarm following isOnline, not its
\* negation.
updateAlarms_notNegated(c, cpuPercent, memPercent, isOnline) ==
  [c EXCEPT !["alarm_heat"] = Val(cpuPercent > 900 \/ memPercent > 900),
            !["alarm_connectivity"] = Val(isOnline)]

\* updateAlarms with the heat alarm asking for both percents above 90.
updateAlarms_bothAbove(c, cpuPercent, memPercent, isOnline) ==
  [c EXCEPT !["alarm_heat"] = Val(cpuPercent > 900 /\ memPercent > 900),
            !["alarm_connectivity"] = Val(~isOnline)]

updateAlarms(c, cpuPercent, memPercent, isOnline) ==
  LET isOverheating == (cpuPercent > 900 \/ memPercent > 900)
  IN  [c EXCEPT !["alarm_heat"] = Val(isOverheating),
                !["alarm_connectivity"] = Val(~isOnline)]

----------------------------------------------------------------------------
(* updateIOMetrics *)

\* The capability that reports the rate of a counter.
RateCapability(counter) ==
  CASE counter = "netin" -> "measure_network_in"
    [] counter = "netout" -> "measure_network_out"
    [] counter = "diskread" -> "measure_disk_read"
    [] counter = "diskwrite" -> "measure_disk_write"

\* One of the four blocks of updateIOMetrics: s is [cap, previousCounters,
\* sinceTimestamp].
updateCounter(s, status, counter, intervalSeconds) ==
  IF counter \in DOMAIN status
    THEN [s EXCEPT !.cap[RateCapability(counter)] =
                     Val(calculateRate(status[counter], s.previousCounters[counter],
                                       intervalSeconds)),
                   !.previousCounters[counter] = Val(status[counter])]
    ELSE s

\* updateIOMetrics with the counters stored outside the interval check.
updateIOMetrics_storesAlways(s, status) ==
  LET intervalSeconds == s.sinceTimestamp \div 1000
      s1 == updateCounter(s, status, "netin", intervalSeconds)
      s2 == updateCounter(s1, status, "netout", intervalSeconds)
      s3 == updateCounter(s2, status, "diskread", intervalSeconds)
      s4 == updateCounter(s3, status, "diskwrite", intervalSeconds)
  IN  IF intervalSeconds > 0
        THEN [s4 EXCEPT !.sinceTimestamp = 0]
        ELSE [s EXCEPT !.previousCounters = s4.previousCounters]

updateIOMetrics(s, status) ==
  LET intervalSeconds == s.sinceTimestamp \div 1000
      s1 == updateCounter(s, status, "netin", intervalSeconds)
      s2 == updateCounter(s1, status, "netout", intervalSeconds)
      s3 == updateCounter(s2, status, "diskread", intervalSeconds)
      s4 == updateCounter(s3, status, "diskwrite", intervalSeconds)
  IN  IF intervalSeconds > 0
        THEN [s4 EXCEPT !.sinceTimestamp = 0]
        ELSE s

----------------------------------------------------------------------------
(* checkAndTriggerFlowCards *)

\* crossing that fires at every poll above `high`.
crossing_everyPoll(value, above, high, low) ==
  IF value > high
    THEN [above |-> TRUE, fire |-> TRUE]
    ELSE IF value <= low
           THEN [above |-> FALSE, fire |-> FALSE]
           ELSE [above |-> above, fire |-> FALSE]

\* crossing that clears the flag at the trigger level, without hysteresis.
crossing_noHysteresis(value, above, high, low) ==
  IF value > high /\ ~above
    THEN [above |-> TRUE, fire |-> TRUE]
    ELSE IF value <= high
           THEN [above |-> FALSE, fire |-> FALSE]
           ELSE [above |-> above, fire |-> FALSE]

\* One hysteresis block: fire and set the flag when the value exceeds `high`
\* while the flag is clear, else clear the flag when the value is at or
\* below `low`.
crossing(value, above, high, low) ==
  IF value > high /\ ~above
    THEN [above |-> TRUE, fire |-> TRUE]
    ELSE IF value <= low
           THEN [above |-> FALSE, fire |-> FALSE]
           ELSE [above |-> above, fire |-> FALSE]

\* runEdge without the check for an unknown previous state.
runEdge_noNullCheck(previous, isRunning) ==
  IF previous # Val(isRunning)
    THEN IF isRunning THEN {"vm_started"} ELSE {"vm_stopped"}
    ELSE {}

\* The started / stopped edge against previousState.isRunning.
runEdge(previous, isRunning) ==
  IF previous # Null /\ previous # Val(isRunning)
    THEN IF isRunning THEN {"vm_started"} ELSE {"vm_stopped"}
    ELSE {}

\* checkAndTriggerFlowCards with the inbound and read rates alone taken for
\* the network and disk totals.
checkAndTriggerFlowCards_inboundOnly(c, ps, tt, isRunning, cpuPercent, memPercent) ==
  LET totalNetwork == OrZero(c["measure_network_in"])
      totalDiskIO == OrZero(c["measure_disk_read"])
      cpu == crossing(cpuPercent, tt.cpu.above, 900, 850)
      memory == crossing(memPercent, tt.memory.above, 900, 850)
      network == crossing(totalNetwork, tt.network.above, 1000, 800)
      diskIO == crossing(totalDiskIO, tt.diskIO.above, 5000, 4000)
  IN  [previousState |-> [ps EXCEPT !.isRunning = Val(isRunning)],
       thresholdTracking |->
         [tt EXCEPT !.cpu.above = cpu.above, !.memory.above = memory.above,
                    !.network.above = network.above, !.diskIO.above = diskIO.above],
       fired |-> runEdge(ps.isRunning, isRunning)
                 \cup (IF cpu.fire THEN {"cpu_above_threshold"} ELSE {})
                 \cup (IF memory.fire THEN {"memory_above_threshold"} ELSE {})
                 \cup (IF network.fire THEN {"high_network_traffic"} ELSE {})
                 \cup (IF diskIO.fire THEN {"high_disk_io"} ELSE {})]

\* c is the capability store after the cycle's writes.  The result is the
\* new previousState and thresholdTracking and the cards fired.
checkAndTriggerFlowCards(c, ps, tt, isRunning, cpuPercent, memPercent) ==
  LET totalNetwork == OrZero(c["measure_network_in"]) + OrZero(c["measure_network_out"])
      totalDiskIO == OrZero(c["measure_disk_read"]) + OrZero(c["measure_disk_write"])
      cpu == crossing(cpuPercent, tt.cpu.above, 900, 850)
      memory == crossing(memPercent, tt.memory.above, 900, 850)
      network == crossing(totalNetwork, tt.network.above, 1000, 800)
      diskIO == crossing(totalDiskIO, tt.diskIO.above, 5000, 4000)
  IN  [previousState |-> [ps EXCEPT !.isRunning = Val(isRunning)],
       thresholdTracking |->
         [tt EXCEPT !.cpu.above = cpu.above, !.memory.above = memory.above,
                    !.network.above = network.above, !.diskIO.above = diskIO.above],
       fired |-> runEdge(ps.isRunning, isRunning)
                 \cup (IF cpu.fire THEN {"cpu_above_threshold"} ELSE {})
                 \cup (IF memory.fire THEN {"memory_above_threshold"} ELSE {})
                 \cup (IF network.fire THEN {"high_network_traffic"} ELSE {})
                 \cup (IF diskIO.fire THEN {"high_disk_io"} ELSE {})]

----------------------------------------------------------------------------
(* Status objects the cluster can answer with *)

Merge(f, g) == [x \in DOMAIN f \cup DOMAIN g |-> IF x \in DOMAIN g THEN g[x] ELSE f[x]]

NoFields == [x \in {} |-> 0]

\* cpu (ten-thousandths), memory and disk use, uptime (seconds) of a running
\* guest; a field left out is undefined in the answer.  0.85 and 0.90 are
\* the reset and trigger levels themselves, 0.9006 rounds to 90.1 %.
GuestVitals ==
  {[cpu |-> c, mem |-> 900, maxmem |-> 1000, disk |-> 250, maxdisk |-> 1000, uptime |-> 7200]
     : c \in {8500, 9006}}
  \cup
  {[cpu |-> 9000, mem |-> m, maxmem |-> 1000, disk |-> 250, maxdisk |-> 1000, uptime |-> 7200]
     : m \in {850, 950}}
  \cup
  {[cpu |-> 9006, mem |-> 950, maxmem |-> 0, uptime |-> 3600]}

\* The four cumulative counters of an answer (bytes).  Over one second the
\* step from the first sample to the second gives 18.00 and 90.00 MB/s,
\* above the trigger levels; from the second to the third 10.00 and 50.00
\* MB/s, the trigger levels themselves.  The fourth sample carries two of
\* the counters only: after the second it leaves the rates of the other two
\* as they were, 8.00 and 40.00 MB/s, the reset levels.
CounterSamples ==
  {[netin |-> 0, netout |-> 0, diskread |-> 0, diskwrite |-> 0],
   [netin |-> 10 * MiB, netout |-> 8 * MiB, diskread |-> 50 * MiB, diskwrite |-> 40 * MiB],
   [netin |-> 15 * MiB, netout |-> 13 * MiB, diskread |-> 75 * MiB, diskwrite |-> 65 * MiB],
   [netin |-> 10 * MiB, diskread |-> 50 * MiB]}

\* Answers of a running guest: each vitals sample without counters, and each
\* counter sample with cpu and memory inside their hysteresis bands.
RunningSamples ==
  GuestVitals
  \cup
  {Merge([cpu |-> 9000, mem |-> 900, maxmem |-> 1000, uptime |-> 7200], c)
     : c \in CounterSamples}

GuestStatuses ==
  {Merge([status |-> "running"], r) : r \in RunningSamples}
  \cup
  {[status |-> "stopped", cpu |-> 9200, mem |-> 950, maxmem |-> 1000,
    netin |-> 10 * MiB, diskread |-> 50 * MiB]}

\* A node answer: memory instead of mem, rootfs instead of disk / maxdisk.
AsNodeStatus(v) ==
  LET kept == DOMAIN v \ {"mem", "disk", "maxdisk"}
      base == [x \in kept |-> v[x]]
      m == IF "mem" \in DOMAIN v THEN [memory |-> v.mem] ELSE NoFields
      r == IF "disk" \in DOMAIN v
             THEN [rootfs |-> [used |-> v.disk, total |-> v.maxdisk]]
             ELSE NoFields
  IN  Merge(Merge(base, m), r)

NodeStatuses ==
  {AsNodeStatus(r) : r \in RunningSamples}
  \cup
  {[uptime |-> 0],
   [uptime |-> 0, cpu |-> 9200, memory |-> 950, maxmem |-> 1000],
   [cpu |-> 9200]}

----------------------------------------------------------------------------
(* onInit *)

\* No request has been made, nothing is stored, no timer is pending.
NoRequest ==
  /\ store = [node |-> Null]
  /\ pc = "idle"
  /\ request = Null
  /\ caught = Null
  /\ searchAt = 0
  /\ newNode = Null
  /\ issued = <<>>
  /\ searches = 0
  /\ inflight = {}
  /\ scheduled = <<>>
  /\ timers = 0
  /\ result = Null

\* The devices whose scheduling is followed: this one, whose state the
\* other variables hold, and one other.
Devices == {"this", "other"}

\* setInterval(..., 30000)
PollDelay == 30000

\* Settings the code never reads are absent; a setting is Null or Val(v).
NoSettings ==
  [pollingInterval |-> Null, cpuThreshold |-> Null, memoryThreshold |-> Null,
   networkThreshold |-> Null, diskIOThreshold |-> Null]

\* onInit has armed the timer; no cycle is in flight.
Scheduled ==
  /\ phase = [d \in Devices |-> "ready"]
  /\ pollInterval = [d \in Devices |-> Val(PollDelay)]
  /\ settings = NoSettings
  /\ fetching = [d \in Devices |-> 0]
  /\ lastCycle = [d \in Devices |-> "none"]

\* No pairing session has listed devices, findVMNode has not been called.
NoPairing ==
  /\ answers = Null
  /\ located = Null
  /\ devices = Null

\* ProxmoxAPI.request has not been called.
NoExchange ==
  /\ exchange = Null
  /\ stage = "none"
  /\ buffer = <<>>
  /\ calls = <<>>

\* No credentials call, no second device, no cycle at an await.
Apart ==
  /\ stored = Null
  /\ accepted = Null
  /\ returned = Null
  /\ peer = Null
  /\ lastRunEvent = "none"
  /\ racing = <<>>

Init ==
  /\ data \in [type : DeviceTypes]
  /\ sinceTimestamp = 0
  /\ cap = [c \in requiredCapabilities |-> Null]
  /\ previousCounters = [netin |-> Null, netout |-> Null, diskread |-> Null,
                         diskwrite |-> Null]
  /\ previousState = [isRunning |-> Null, cpuPercent |-> 0, memPercent |-> 0,
                      networkTotal |-> 0, diskIOTotal |-> 0]
  /\ thresholdTracking = [cpu |-> [above |-> FALSE, threshold |-> 90],
                          memory |-> [above |-> FALSE, threshold |-> 90],
                          network |-> [above |-> FALSE, threshold |-> 10],
                          diskIO |-> [above |-> FALSE, threshold |-> 50]]
  /\ emitted = {}
  /\ outcome = "none"
  /\ cycle = 0
  /\ observed = Null
  /\ rateArgs = Null
  /\ rateResult = Null
  /\ location = Null
  /\ NoRequest
  /\ Scheduled
  /\ NoPairing
  /\ NoExchange
  /\ Apart

----------------------------------------------------------------------------
(* Date.now() *)

\* A second passes.
Tick ==
  /\ sinceTimestamp + 1000 <= MaxElapsed * 1000
  /\ sinceTimestamp' = sinceTimestamp + 1000
  /\ UNCHANGED <<data, cap, previousCounters, previousState, thresholdTracking,
                 emitted, outcome, cycle, observed, rateArgs, rateResult>>

\* The wall clock is set back by a second.
ClockSetBack ==
  /\ sinceTimestamp - 1000 >= -(MaxSetBack * 1000)
  /\ sinceTimestamp' = sinceTimestamp - 1000
  /\ UNCHANGED <<data, cap, previousCounters, previousState, thresholdTracking,
                 emitted, outcome, cycle, observed, rateArgs, rateResult>>

----------------------------------------------------------------------------
(* updateStatus *)

\* The end of a cycle whose try block completed: alarms, flow cards.
finishCycle(s, isRunning, cpuPercent, memPercent) ==
  LET c == updateAlarms(s.cap, cpuPercent, memPercent, isRunning)
      f == checkAndTriggerFlowCards(c, previousState, thresholdTracking,
                                    isRunning, cpuPercent, memPercent)
  IN  /\ cap' = c
      /\ previousCounters' = s.previousCounters
      /\ sinceTimestamp' = s.sinceTimestamp
      /\ previousState' = f.previousState
      /\ thresholdTracking' = f.thresholdTracking
      /\ emitted' = f.fired
      /\ outcome' = "ok"
      /\ cycle' = 1 - cycle
      /\ observed' = Val([isRunning |-> isRunning, cpuPercent |-> cpuPercent,
                          memPercent |-> memPercent])
      /\ UNCHANGED <<data, rateArgs, rateResult>>

\* The four rates left at their last values.
zeroRates_kept(c) == c

\* The four rates written as 0.
zeroRates(c) ==
  [c EXCEPT !["measure_network_in"] = Val(0), !["measure_network_out"] = Val(0),
            !["measure_disk_read"] = Val(0), !["measure_disk_write"] = Val(0)]

\* isOnline of the node branch read as `uptime is defined`.
nodeOnline_defined(status) == "uptime" \in DOMAIN status

\* const isOnline = status.uptime > 0: an undefined uptime compares false.
nodeOnline(status) == "uptime" \in DOMAIN status /\ status.uptime > 0

\* const isRunning = status.status === 'running'
guestRunning(status) == status.status = "running"

\* The node branch, on an answer `status`.
UpdateStatusNode(status) ==
  /\ data.type = "node"
  /\ LET isOnline == nodeOnline(status)
         hasCpu == "cpu" \in DOMAIN status
         hasMem == /\ "memory" \in DOMAIN status
                   /\ "maxmem" \in DOMAIN status
                   /\ status.maxmem > 0
         hasDisk == "rootfs" \in DOMAIN status
         cpuPercent == IF isOnline /\ hasCpu
                         THEN roundToOneDecimal(status.cpu * 100, 10000) ELSE 0
         memPercent == IF isOnline /\ hasMem
                         THEN roundToOneDecimal(status.memory * 100, status.maxmem) ELSE 0
         c0 == [cap EXCEPT !["onoff"] = Val(isOnline)]
         c1 == IF hasCpu THEN [c0 EXCEPT !["measure_cpu"] = Val(cpuPercent)] ELSE c0
         c2 == IF hasMem THEN [c1 EXCEPT !["measure_memory"] = Val(memPercent)] ELSE c1
         c3 == IF hasDisk
                 THEN [c2 EXCEPT !["measure_disk"] =
                         Val(roundToOneDecimal(
                               (IF status.rootfs.used = 0 THEN 0 ELSE status.rootfs.used) * 100,
                               (IF status.rootfs.total = 0 THEN 1 ELSE status.rootfs.total)))]
                 ELSE c2
         c4 == [c3 EXCEPT !["sensor_uptime"] = Val(roundToOneDecimal(status.uptime, 3600))]
         s == IF isOnline
                THEN updateIOMetrics([cap |-> c4, previousCounters |-> previousCounters,
                                      sinceTimestamp |-> sinceTimestamp], status)
                ELSE [cap |-> zeroRates(c0), previousCounters |-> previousCounters,
                      sinceTimestamp |-> sinceTimestamp]
     IN  finishCycle(s, isOnline, cpuPercent, memPercent)

\* The lxc and vm branches, which read alike, on an answer `status`.
updateGuest(status) ==
  LET isRunning == guestRunning(status)
      hasCpu == "cpu" \in DOMAIN status
      hasMem == /\ "mem" \in DOMAIN status
                /\ "maxmem" \in DOMAIN status
                /\ status.maxmem > 0
      hasDisk == /\ "disk" \in DOMAIN status
                 /\ "maxdisk" \in DOMAIN status
                 /\ status.maxdisk > 0
      hasUptime == "uptime" \in DOMAIN status
      cpuPercent == IF isRunning /\ hasCpu
                      THEN roundToOneDecimal(status.cpu * 100, 10000) ELSE 0
      memPercent == IF isRunning /\ hasMem
                      THEN roundToOneDecimal(status.mem * 100, status.maxmem) ELSE 0
      c0 == [cap EXCEPT !["onoff"] = Val(isRunning)]
      c1 == IF hasCpu THEN [c0 EXCEPT !["measure_cpu"] = Val(cpuPercent)] ELSE c0
      c2 == IF hasMem THEN [c1 EXCEPT !["measure_memory"] = Val(memPercent)] ELSE c1
      c3 == IF hasDisk
              THEN [c2 EXCEPT !["measure_disk"] =
                      Val(roundToOneDecimal(status.disk * 100, status.maxdisk))]
              ELSE c2
      c4 == IF hasUptime
              THEN [c3 EXCEPT !["sensor_uptime"] = Val(roundToOneDecimal(status.uptime, 3600))]
              ELSE c3
      stopped == zeroRates([c0 EXCEPT !["measure_cpu"] = Val(0),
                                      !["measure_memory"] = Val(0),
                                      !["measure_disk"] = Val(0),
                                      !["sensor_uptime"] = Val(0)])
      s == IF isRunning
             THEN updateIOMetrics([cap |-> c4, previousCounters |-> previousCounters,
                                   sinceTimestamp |-> sinceTimestamp], status)
             ELSE [cap |-> stopped, previousCounters |-> previousCounters,
                   sinceTimestamp |-> sinceTimestamp]
  IN  finishCycle(s, isRunning, cpuPercent, memPercent)

UpdateStatusLXC(status) ==
  /\ data.type = "lxc"
  /\ updateGuest(status)

UpdateStatusVM(status) ==
  /\ data.type = "vm"
  /\ updateGuest(status)

\* A storage device: no branch of updateStatus matches, nothing is fetched.
UpdateStatusStorage ==
  /\ data.type = "storage"
  /\ outcome' = "nofetch"
  /\ cycle' = 1 - cycle
  /\ emitted' = {}
  /\ UNCHANGED <<data, sinceTimestamp, cap, previousCounters, previousState, thresholdTracking,
                 observed, rateArgs, rateResult>>

\* The catch block that also writes the stopped values, as the stopped
\* branch of a guest does.
UpdateStatusError_zeroes ==
  /\ data.type \in {"node", "lxc", "vm"}
  /\ cap' = [zeroRates(cap) EXCEPT !["alarm_generic"] = Val(TRUE),
                                   !["alarm_connectivity"] = Val(TRUE),
                                   !["measure_cpu"] = Val(0),
                                   !["measure_memory"] = Val(0)]
  /\ emitted' = {"device_unreachable"}
  /\ outcome' = "error"
  /\ cycle' = 1 - cycle
  /\ UNCHANGED <<data, sinceTimestamp, previousCounters, previousState, thresholdTracking,
                 observed, rateArgs, rateResult>>

\* The catch block with alarm_generic alone, as before the flow cards and the
\* connectivity alarm were added.
UpdateStatusError_genericOnly ==
  /\ data.type \in {"node", "lxc", "vm"}
  /\ cap' = [cap EXCEPT !["alarm_generic"] = Val(TRUE)]
  /\ emitted' = {}
  /\ outcome' = "error"
  /\ cycle' = 1 - cycle
  /\ UNCHANGED <<data, sinceTimestamp, previousCounters, previousState, thresholdTracking,
                 observed, rateArgs, rateResult>>

\* The catch block firing the device-unreachable card only when the
\* connectivity alarm was not already raised.
UpdateStatusError_deduplicated ==
  /\ data.type \in {"node", "lxc", "vm"}
  /\ cap' = [cap EXCEPT !["alarm_generic"] = Val(TRUE),
                        !["alarm_connectivity"] = Val(TRUE)]
  /\ emitted' = IF cap["alarm_connectivity"] = Val(TRUE)
                  THEN {} ELSE {"device_unreachable"}
  /\ outcome' = "error"
  /\ cycle' = 1 - cycle
  /\ UNCHANGED <<data, sinceTimestamp, previousCounters, previousState, thresholdTracking,
                 observed, rateArgs, rateResult>>

\* The catch block that also forgets the previous counters.
UpdateStatusError_forgets ==
  /\ data.type \in {"node", "lxc", "vm"}
  /\ cap' = [cap EXCEPT !["alarm_generic"] = Val(TRUE),
                        !["alarm_connectivity"] = Val(TRUE)]
  /\ previousCounters' = [netin |-> Null, netout |-> Null, diskread |-> Null,
                          diskwrite |-> Null]
  /\ emitted' = {"device_unreachable"}
  /\ outcome' = "error"
  /\ cycle' = 1 - cycle
  /\ UNCHANGED <<data, sinceTimestamp, previousState, thresholdTracking,
                 observed, rateArgs, rateResult>>

\* The catch block that also records the entity as not running.
UpdateStatusError_marksStopped ==
  /\ data.type \in {"node", "lxc", "vm"}
  /\ cap' = [cap EXCEPT !["alarm_generic"] = Val(TRUE),
                        !["alarm_connectivity"] = Val(TRUE)]
  /\ previousState' = [previousState EXCEPT !.isRunning = Val(FALSE)]
  /\ emitted' = {"device_unreachable"}
  /\ outcome' = "error"
  /\ cycle' = 1 - cycle
  /\ UNCHANGED <<data, sinceTimestamp, previousCounters, thresholdTracking,
                 observed, rateArgs, rateResult>>

\* The status request rejects (transport error, non-2xx answer, unparsable
\* body) or its answer cannot be read: the catch block.
UpdateStatusError ==
  /\ data.type \in {"node", "lxc", "vm"}
  /\ cap' = [cap EXCEPT !["alarm_generic"] = Val(TRUE),
                        !["alarm_connectivity"] = Val(TRUE)]
  /\ emitted' = {"device_unreachable"}
  /\ outcome' = "error"
  /\ cycle' = 1 - cycle
  /\ UNCHANGED <<data, sinceTimestamp, previousCounters, previousState, thresholdTracking,
                 observed, rateArgs, rateResult>>

Next ==
  \/ Tick /\ UNCHANGED <<cmdVars, schedVars, pairVars, reqVars, apartVars>>
  \/ ClockSetBack /\ UNCHANGED <<cmdVars, schedVars, pairVars, reqVars, apartVars>>
  \/ (\E status \in NodeStatuses : UpdateStatusNode(status)) /\ UNCHANGED <<cmdVars, schedVars, pairVars, reqVars, apartVars>>
  \/ (\E status \in GuestStatuses : UpdateStatusLXC(status)) /\ UNCHANGED <<cmdVars, schedVars, pairVars, reqVars, apartVars>>
  \/ (\E status \in GuestStatuses : UpdateStatusVM(status)) /\ UNCHANGED <<cmdVars, schedVars, pairVars, reqVars, apartVars>>
  \/ UpdateStatusStorage /\ UNCHANGED <<cmdVars, schedVars, pairVars, reqVars, apartVars>>
  \/ UpdateStatusError /\ UNCHANGED <<cmdVars, schedVars, pairVars, reqVars, apartVars>>

Spec == Init /\ [][Next]_vars

----------------------------------------------------------------------------
(* calculateRate called directly on drawn arguments *)

RateCounters == {0, 5242, 5243, MiB, 3 * MiB + 7, 16 * MiB}

RateIntervals == {1, 2, 3, 30}

RateInputs ==
  [currentValue : RateCounters,
   previousValue : {Null} \cup {Val(p) : p \in RateCounters},
   intervalSeconds : RateIntervals]

InitRate ==
  /\ data = [type |-> "lxc"]
  /\ sinceTimestamp = 0
  /\ cap = [c \in requiredCapabilities |-> Null]
  /\ previousCounters = [netin |-> Null, netout |-> Null, diskread |-> Null,
                         diskwrite |-> Null]
  /\ previousState = [isRunning |-> Null, cpuPercent |-> 0, memPercent |-> 0,
                      networkTotal |-> 0, diskIOTotal |-> 0]
  /\ thresholdTracking = [cpu |-> [above |-> FALSE, threshold |-> 90],
                          memory |-> [above |-> FALSE, threshold |-> 90],
                          network |-> [above |-> FALSE, threshold |-> 10],
                          diskIO |-> [above |-> FALSE, threshold |-> 50]]
  /\ emitted = {}
  /\ outcome = "none"
  /\ cycle = 0
  /\ observed = Null
  /\ rateArgs \in {Val(a) : a \in RateInputs}
  /\ rateResult = Null
  /\ location = Null
  /\ NoRequest
  /\ Scheduled
  /\ NoPairing
  /\ NoExchange
  /\ Apart

CallCalculateRate ==
  /\ rateArgs # Null
  /\ rateResult = Null
  /\ rateResult' = Val(calculateRate(rateArgs[1].currentValue, rateArgs[1].previousValue,
                                     rateArgs[1].intervalSeconds))
  /\ UNCHANGED <<data, sinceTimestamp, cap, previousCounters, previousState,
                 thresholdTracking, emitted, outcome, cycle, observed, rateArgs>>

NextRate == CallCalculateRate /\ UNCHANGED <<cmdVars, schedVars, pairVars, reqVars, apartVars>>

SpecRate == InitRate /\ [][NextRate]_vars

----------------------------------------------------------------------------
(* Start, stop and restart requests: the action cards of driver.js, the
   onoff capability listener of device.js, findVMNode of proxmox-api.js *)

\* A request is accepted only while fewer than MaxTimers refresh timers are
\* pending.
MaxTimers == 1

\* The delay of the refresh after a command, ms.
RefreshDelay == 3000

\* The nodes of the cluster, in the order getNodes answers them.
ClusterNodes == <<"pve1", "pve2">>

Locations == {Null} \cup {Val(ClusterNodes[i]) : i \in 1..Len(ClusterNodes)}

\* A call to the cluster: a command or a query, and the node it names.
Call(op, node) == [op |-> op, node |-> node]

\* How a request ends.  An Error's message is `text`, followed by the
\* message of the error it wraps, which is named by the call that failed.
succeeded == [ok |-> TRUE, text |-> <<>>, cause |-> Null]

rejected(text) == [ok |-> FALSE, text |-> <<text>>, cause |-> Null]

wrapped(text, type, cause) == [ok |-> FALSE, text |-> <<text, type>>, cause |-> Val(cause)]

\* The type check of the three action cards.
controllable_notStorage(type) == type # "storage"

controllable(type) == type \in {"vm", "lxc"}

\* The test on what findVMNode returned.
shouldRetry_found(found, node) == found # Null

shouldRetry(found, node) == found # Null /\ found[1] # node

\* data.node = newNode
migrate_forgets(d, found) == d

migrate(d, found) == [d EXCEPT !.node = found]

\* The list queries findVMNode has outstanding while it stands at node i.
listQueries_all(i) == {Call("list", ClusterNodes[j]) : j \in 1..Len(ClusterNodes)}

listQueries(i) == {Call("list", ClusterNodes[i])}

\* The setTimeout calls at the end of a handler whose commands went as `ok`.
refreshes_always(ok) == <<RefreshDelay>>

refreshes(ok) == IF ok THEN <<RefreshDelay>> ELSE <<>>

\* What a refresh can read of a guest: stopped, or running.
RefreshStatuses ==
  {s \in GuestStatuses : s.status = "stopped" \/ ("maxmem" \in DOMAIN s /\ s.maxmem = 0)}

pollVars == <<sinceTimestamp, cap, previousCounters, previousState, thresholdTracking,
              emitted, outcome, cycle, observed, rateArgs, rateResult>>

InitCmd ==
  /\ data \in [type : DeviceTypes, node : {ClusterNodes[1]}]
  /\ sinceTimestamp = 0
  /\ cap = [c \in requiredCapabilities |-> Null]
  /\ previousCounters = [netin |-> Null, netout |-> Null, diskread |-> Null,
                         diskwrite |-> Null]
  /\ previousState = [isRunning |-> Null, cpuPercent |-> 0, memPercent |-> 0,
                      networkTotal |-> 0, diskIOTotal |-> 0]
  /\ thresholdTracking = [cpu |-> [above |-> FALSE, threshold |-> 90],
                          memory |-> [above |-> FALSE, threshold |-> 90],
                          network |-> [above |-> FALSE, threshold |-> 10],
                          diskIO |-> [above |-> FALSE, threshold |-> 50]]
  /\ emitted = {}
  /\ outcome = "none"
  /\ cycle = 0
  /\ observed = Null
  /\ rateArgs = Null
  /\ rateResult = Null
  /\ location \in Locations
  /\ NoRequest
  /\ Scheduled
  /\ NoPairing
  /\ NoExchange
  /\ Apart

\* The guest is migrated to another node, or destroyed, or created.
Migrate ==
  /\ \E l \in Locations : l # location /\ location' = l
  /\ UNCHANGED <<data, pollVars, store, pc, request, caught, searchAt, newNode, issued,
                 searches, inflight, scheduled, timers, result>>

\* A handler starts on a request: what it kept of the last one is gone.
begin(kind, via) ==
  /\ pc = "idle"
  /\ request' = Val([kind |-> kind, via |-> via])
  /\ caught' = Null
  /\ searchAt' = 0
  /\ newNode' = Null
  /\ searches' = 0

\* A handler that sends commands ends with `res`: past its try block stands
\* the setTimeout, which a throw skips.
finish(res) ==
  /\ result' = Val(res)
  /\ scheduled' = refreshes(res.ok)
  /\ timers' = timers + Len(refreshes(res.ok))
  /\ pc' = "idle"
  /\ inflight' = {}

\* The start_vm and stop_vm cards: the type check, then setCapabilityValue.
onoffCard(value, text) ==
  /\ begin(IF value THEN "start" ELSE "stop", "card")
  /\ issued' = <<>>
  /\ IF controllable(data.type)
       THEN /\ cap' = [cap EXCEPT !["onoff"] = Val(value)]
            /\ result' = Val(succeeded)
       ELSE /\ cap' = cap
            /\ result' = Val(rejected(text))
  /\ scheduled' = <<>>
  /\ UNCHANGED <<data, sinceTimestamp, previousCounters, previousState, thresholdTracking,
                 emitted, outcome, cycle, observed, rateArgs, rateResult,
                 location, store, pc, inflight, timers>>

StartVmCard == onoffCard(TRUE, "This device cannot be started")

StopVmCard == onoffCard(FALSE, "This device cannot be stopped")

\* The restart_vm card up to its first await: the type check and the first
\* restart command, sent to data.node.
RestartVmCard ==
  /\ timers < MaxTimers
  /\ begin("restart", "card")
  /\ IF ~controllable(data.type)
       THEN /\ result' = Val(rejected("This device cannot be restarted"))
            /\ issued' = <<>>
            /\ scheduled' = <<>>
            /\ UNCHANGED <<pc, inflight, timers>>
       ELSE IF data.type \in {"lxc", "vm"}
         THEN /\ issued' = <<Call("restart", data.node)>>
              /\ inflight' = {Call("restart", data.node)}
              /\ pc' = "restart"
              /\ result' = Null
              /\ scheduled' = <<>>
              /\ UNCHANGED timers
         ELSE /\ issued' = <<>>
              /\ finish(succeeded)
  /\ UNCHANGED <<data, pollVars, location, store>>

\* A restart command succeeds only on the node that holds the guest.
accepts(call) == location = Val(call.node)

\* findVMNode has returned `found`: the retry on another node, or the first
\* error thrown on.
decide(found) ==
  /\ newNode' = found
  /\ searchAt' = 0
  /\ IF shouldRetry(found, data.node)
       THEN /\ data' = migrate(data, found[1])
            /\ store' = [store EXCEPT !.node = found]
            /\ issued' = Append(issued, Call("restart", data'.node))
            /\ inflight' = {Call("restart", data'.node)}
            /\ pc' = "retry"
            /\ UNCHANGED <<result, scheduled, timers>>
       ELSE /\ finish(wrapped("Failed to restart", data.type, caught[1]))
            /\ UNCHANGED <<data, store, issued>>

\* The first restart command is answered: on an error, findVMNode is called
\* and asks for the nodes.
RestartAnswer ==
  /\ pc = "restart"
  /\ \E ok \in BOOLEAN :
       /\ ok => accepts(issued[1])
       /\ IF ok
            THEN /\ finish(succeeded)
                 /\ UNCHANGED <<caught, searches>>
            ELSE /\ caught' = Val(issued[1])
                 /\ searches' = searches + 1
                 /\ inflight' = {Call("getNodes", "")}
                 /\ pc' = "getNodes"
                 /\ UNCHANGED <<result, scheduled, timers>>
  /\ UNCHANGED <<data, pollVars, location, store, request, searchAt, newNode, issued>>

\* findVMNode: getNodes is answered; an error makes findVMNode return null.
GetNodesAnswer ==
  /\ pc = "getNodes"
  /\ \E ok \in BOOLEAN :
       IF ok
         THEN /\ searchAt' = 1
              /\ inflight' = listQueries(1)
              /\ pc' = "list"
              /\ UNCHANGED <<data, store, newNode, issued, result, scheduled, timers>>
         ELSE decide(Null)
  /\ UNCHANGED <<pollVars, location, request, caught, searches>>

\* findVMNode: the list of one node is answered, with an error (which is
\* swallowed) or with the node's guests.
ListAnswer ==
  /\ pc = "list"
  /\ \E listed \in BOOLEAN :
       LET node == ClusterNodes[searchAt]
       IN  IF listed /\ location = Val(node)
             THEN decide(Val(node))
             ELSE IF searchAt < Len(ClusterNodes)
                    THEN /\ searchAt' = searchAt + 1
                         /\ inflight' = listQueries(searchAt + 1)
                         /\ UNCHANGED <<data, store, pc, newNode, issued, result,
                                        scheduled, timers>>
                    ELSE decide(Null)
  /\ UNCHANGED <<pollVars, location, request, caught, searches>>

\* The retried restart command is answered.
RetryAnswer ==
  /\ pc = "retry"
  /\ \E ok \in BOOLEAN :
       /\ ok => accepts(issued[Len(issued)])
       /\ finish(IF ok THEN succeeded
                 ELSE wrapped("Failed to restart", data.type, issued[Len(issued)]))
  /\ UNCHANGED <<data, pollVars, location, store, request, caught, searchAt, newNode,
                 issued, searches>>

\* onCapabilityOnoff up to its await; the listener is registered for lxc and
\* vm devices alone.
OnCapabilityOnoff(value) ==
  /\ data.type \in {"lxc", "vm"}
  /\ timers < MaxTimers
  /\ begin(IF value THEN "start" ELSE "stop", "listener")
  /\ issued' = <<Call(IF value THEN "start" ELSE "stop", data.node)>>
  /\ inflight' = {Call(IF value THEN "start" ELSE "stop", data.node)}
  /\ pc' = "onoff"
  /\ result' = Null
  /\ scheduled' = <<>>
  /\ UNCHANGED <<data, pollVars, location, store, timers>>

\* The start or stop command is answered.
OnoffAnswer ==
  /\ pc = "onoff"
  /\ \E ok \in BOOLEAN :
       /\ ok => accepts(issued[1])
       /\ finish(IF ok THEN succeeded
                 ELSE wrapped(IF issued[1].op = "start" THEN "Failed to start"
                                                         ELSE "Failed to stop",
                              data.type, issued[1]))
  /\ UNCHANGED <<data, pollVars, location, store, request, caught, searchAt, newNode,
                 issued, searches>>

\* A refresh timer fires: updateStatus, whose fetch names data.node.
RefreshFires ==
  /\ timers > 0
  /\ timers' = timers - 1
  /\ \/ /\ location = Val(data.node)
        /\ \E status \in RefreshStatuses :
             UpdateStatusLXC(status) \/ UpdateStatusVM(status)
     \/ UpdateStatusError
  /\ UNCHANGED <<location, store, pc, request, caught, searchAt, newNode, issued,
                 searches, inflight, scheduled, result>>

NextCmd ==
  \/ Migrate /\ UNCHANGED <<schedVars, pairVars, reqVars, apartVars>>
  \/ StartVmCard /\ UNCHANGED <<schedVars, pairVars, reqVars, apartVars>>
  \/ StopVmCard /\ UNCHANGED <<schedVars, pairVars, reqVars, apartVars>>
  \/ RestartVmCard /\ UNCHANGED <<schedVars, pairVars, reqVars, apartVars>>
  \/ RestartAnswer /\ UNCHANGED <<schedVars, pairVars, reqVars, apartVars>>
  \/ GetNodesAnswer /\ UNCHANGED <<schedVars, pairVars, reqVars, apartVars>>
  \/ ListAnswer /\ UNCHANGED <<schedVars, pairVars, reqVars, apartVars>>
  \/ RetryAnswer /\ UNCHANGED <<schedVars, pairVars, reqVars, apartVars>>
  \/ (\E value \in BOOLEAN : OnCapabilityOnoff(value)) /\ UNCHANGED <<schedVars, pairVars, reqVars, apartVars>>
  \/ OnoffAnswer /\ UNCHANGED <<schedVars, pairVars, reqVars, apartVars>>
  \/ RefreshFires /\ UNCHANGED <<schedVars, pairVars, reqVars, apartVars>>

SpecCmd == InitCmd /\ [][NextCmd]_vars

----------------------------------------------------------------------------
(* The scheduling of poll cycles: onInit, the interval timer, onSettings,
   onRepair, the refresh timer of a command, onDeleted.  updateStatus is
   split at its one await of a status request: a cycle is in flight from
   the call of updateStatus until the request is answered, and what follows
   the answer is one step.  This device is a virtual machine; of the other
   device only the scheduling is followed. *)

\* A device has at most MaxInFlight status requests unanswered.
MaxInFlight == 2

\* The answers this device's status request gets here: a stopped guest, a
\* running one at 85 % cpu and 90 % memory with a quarter of its disk used,
\* and the same with 82 % of its disk used.
SchedStatuses ==
  {s \in GuestStatuses : s.status = "stopped" \/ ("cpu" \in DOMAIN s /\ s.cpu = 8500)}
  \cup
  {[status |-> "running", cpu |-> 8500, mem |-> 900, maxmem |-> 1000, disk |-> 820,
    maxdisk |-> 1000, uptime |-> 7200]}

\* What a settings form can hold: nothing, or a cadence of 60 s and
\* thresholds of 80 %, 80 %, 5 MB/s and 25 MB/s.
SettingsChoices ==
  {NoSettings,
   [pollingInterval |-> Val(60), cpuThreshold |-> Val(800), memoryThreshold |-> Val(800),
    networkThreshold |-> Val(500), diskIOThreshold |-> Val(2500)]}

InitSched ==
  /\ data = [type |-> "vm"]
  /\ sinceTimestamp = 0
  /\ cap = [c \in requiredCapabilities |-> Null]
  /\ previousCounters = [netin |-> Null, netout |-> Null, diskread |-> Null,
                         diskwrite |-> Null]
  /\ previousState = [isRunning |-> Null, cpuPercent |-> 0, memPercent |-> 0,
                      networkTotal |-> 0, diskIOTotal |-> 0]
  /\ thresholdTracking = [cpu |-> [above |-> FALSE, threshold |-> 90],
                          memory |-> [above |-> FALSE, threshold |-> 90],
                          network |-> [above |-> FALSE, threshold |-> 10],
                          diskIO |-> [above |-> FALSE, threshold |-> 50]]
  /\ emitted = {}
  /\ outcome = "none"
  /\ cycle = 0
  /\ observed = Null
  /\ rateArgs = Null
  /\ rateResult = Null
  /\ location = Null
  /\ NoRequest
  /\ phase = [d \in Devices |-> "new"]
  /\ pollInterval = [d \in Devices |-> Null]
  /\ settings = NoSettings
  /\ fetching = [d \in Devices |-> 0]
  /\ lastCycle = [d \in Devices |-> "none"]
  /\ NoPairing
  /\ NoExchange
  /\ Apart

\* The devices whose unanswered requests keep a cycle of d from starting,
\* were the request to block the caller.
waitsFor_everyRequest(d) == Devices \ {d}

\* request returns a Promise and the timers are per device: a cycle waits
\* for nothing.
waitsFor(d) == {}

\* updateStatus is called: up to the await of the status request.
startCycle(d) ==
  /\ fetching[d] < MaxInFlight
  /\ \A e \in waitsFor(d) : fetching[e] = 0
  /\ fetching' = [fetching EXCEPT ![d] = @ + 1]

\* The catch block that also gives up polling.
afterFailure_cleared(timer) == Null

\* The catch block of updateStatus leaves this.pollInterval as it is.
afterFailure(timer) == timer

\* The status request of a cycle is answered and the cycle runs to its end.
endCycle(d, how) ==
  /\ fetching[d] > 0
  /\ fetching' = [fetching EXCEPT ![d] = @ - 1]
  /\ lastCycle' = [lastCycle EXCEPT ![d] = how]
  /\ pollInterval' = [pollInterval EXCEPT
                        ![d] = IF how = "error" THEN afterFailure(@) ELSE @]

\* What the poll cycle of this device does not touch.
restVars == <<location, store, pc, request, caught, searchAt, newNode, issued, searches,
              inflight, scheduled, result, pairVars, reqVars, apartVars>>

\* onInit: the timer is set, the initial updateStatus is called.
OnInit(d) ==
  /\ phase[d] = "new"
  /\ phase' = [phase EXCEPT ![d] = "ready"]
  /\ pollInterval' = [pollInterval EXCEPT ![d] = Val(PollDelay)]
  /\ startCycle(d)
  /\ UNCHANGED <<data, pollVars, timers, restVars, settings, lastCycle>>

\* The interval timer fires.
TimerFires(d) ==
  /\ pollInterval[d] # Null
  /\ startCycle(d)
  /\ UNCHANGED <<data, pollVars, timers, restVars, phase, pollInterval, settings, lastCycle>>

\* onSettings: the settings of this device are changed; updateStatus is called.
OnSettings(newSettings) ==
  /\ phase["this"] = "ready"
  /\ newSettings # settings
  /\ settings' = newSettings
  /\ startCycle("this")
  /\ UNCHANGED <<data, pollVars, timers, restVars, phase, pollInterval, lastCycle>>

\* The login handler of onRepair, the connection test passed: updateStatus
\* is called.
OnRepair(d) ==
  /\ phase[d] = "ready"
  /\ startCycle(d)
  /\ UNCHANGED <<data, pollVars, timers, restVars, phase, pollInterval, settings, lastCycle>>

\* onCapabilityOnoff, its command answered without error: the refresh timer
\* is set.
CommandSucceeds ==
  /\ phase["this"] = "ready"
  /\ timers < MaxTimers
  /\ timers' = timers + 1
  /\ UNCHANGED <<data, pollVars, restVars, schedVars>>

\* The refresh timer fires: updateStatus is called.
RefreshStarts ==
  /\ timers > 0
  /\ timers' = timers - 1
  /\ startCycle("this")
  /\ UNCHANGED <<data, pollVars, restVars, phase, pollInterval, settings, lastCycle>>

\* This device's status request is answered with a status.
AnswerOk(status) ==
  /\ endCycle("this", "ok")
  /\ UpdateStatusVM(status)
  /\ UNCHANGED <<timers, restVars, phase, settings>>

\* This device's status request fails.
AnswerError ==
  /\ endCycle("this", "error")
  /\ UpdateStatusError
  /\ UNCHANGED <<timers, restVars, phase, settings>>

\* The other device's status request is answered, or fails.
AnswerOther(how) ==
  /\ endCycle("other", how)
  /\ UNCHANGED <<data, pollVars, timers, restVars, phase, settings>>

\* onDeleted: clearInterval.
OnDeleted(d) ==
  /\ phase[d] = "ready"
  /\ phase' = [phase EXCEPT ![d] = "deleted"]
  /\ pollInterval' = [pollInterval EXCEPT ![d] = Null]
  /\ UNCHANGED <<data, pollVars, timers, restVars, settings, fetching, lastCycle>>

\* A second passes.
TickSched == Tick /\ UNCHANGED <<cmdVars, schedVars, pairVars, reqVars, apartVars>>

Completes(d) ==
  IF d = "this" THEN AnswerError \/ \E status \in SchedStatuses : AnswerOk(status)
                ELSE \E how \in {"ok", "error"} : AnswerOther(how)

NextSched ==
  \/ \E d \in Devices : OnInit(d)
  \/ \E d \in Devices : TimerFires(d)
  \/ \E newSettings \in SettingsChoices : OnSettings(newSettings)
  \/ \E d \in Devices : OnRepair(d)
  \/ CommandSucceeds
  \/ RefreshStarts
  \/ \E status \in SchedStatuses : AnswerOk(status)
  \/ AnswerError
  \/ \E how \in {"ok", "error"} : AnswerOther(how)
  \/ \E d \in Devices : OnDeleted(d)
  \/ TickSched

SpecSched == InitSched /\ [][NextSched]_vars

\* The platform initialises the other device, its timer fires, and the
\* cluster answers its requests; of this device's requests nothing is
\* assumed.
FairSched ==
  /\ SpecSched
  /\ WF_vars(OnInit("other"))
  /\ WF_vars(TimerFires("other"))
  /\ WF_vars(Completes("other"))

----------------------------------------------------------------------------
(* findVMNode of proxmox-api.js and the list_devices handler of driver.js,
   as functions of what the cluster answers.  An answer is Null when the
   request rejects, else Val(list). *)

\* The guest lists a node can answer with: containers 100, machines 200.
LxcLists == {Null, Val(<<>>), Val(<<100>>)}

VmLists == {Null, Val(<<200>>)}

\* The storage list: one CephFS storage without a nodes field, or one
\* directory storage.
StorageLists ==
  {Null, Val(<<[storage |-> "cephfs1", type |-> "cephfs"]>>),
   Val(<<[storage |-> "local", type |-> "dir"]>>)}

ClusterAnswers ==
  [nodes : {Null, Val(<<>>), Val(ClusterNodes)},
   lxc : [{ClusterNodes[i] : i \in 1..Len(ClusterNodes)} -> LxcLists],
   vm : [{ClusterNodes[i] : i \in 1..Len(ClusterNodes)} -> VmLists],
   storage : StorageLists]

\* list.find((x) => x.vmid === vmid)
lists(list, vmid) == \E k \in 1..Len(list) : list[k] = vmid

\* A failed list request that makes findVMNode give up: the inner try
\* absent, the error reaches the outer catch.
listFailure_givesUp(node, rest) == [node |-> Null, queried |-> <<node>>]

\* The inner catch of findVMNode: the node is passed over.
listFailure(node, rest) == [rest EXCEPT !.queried = <<node>> \o @]

\* findVMNode from the i-th node on: the node found, and the nodes queried.
RECURSIVE searchFrom(_, _, _, _, _)
searchFrom(a, nodes, vmid, type, i) ==
  IF i > Len(nodes)
    THEN [node |-> Null, queried |-> <<>>]
    ELSE LET node == nodes[i]
             rest == searchFrom(a, nodes, vmid, type, i + 1)
             list == IF type = "lxc" THEN a.lxc[node] ELSE a.vm[node]
         IN  IF type \notin {"lxc", "vm"}
               THEN rest
               ELSE IF list = Null
                 THEN listFailure(node, rest)
                 ELSE IF lists(list[1], vmid)
                        THEN [node |-> Val(node), queried |-> <<node>>]
                        ELSE [rest EXCEPT !.queried = <<node>> \o @]

\* findVMNode: null when getNodes rejects.
findVMNode(a, vmid, type) ==
  IF a.nodes = Null
    THEN [node |-> Null, queried |-> <<>>]
    ELSE searchFrom(a, a.nodes[1], vmid, type, 1)

\* A device offered for pairing.
Device(type, node, vmid, storage) ==
  [type |-> type, node |-> node, vmid |-> vmid, storage |-> storage]

\* The guests of one list answer as devices; none when the request rejected.
guestDevices(type, node, list) ==
  IF list = Null
    THEN <<>>
    ELSE [k \in 1..Len(list[1]) |-> Device(type, node, Val(list[1][k]), Null)]

\* The guests of the nodes from the i-th on.
RECURSIVE guestsFrom(_, _, _, _)
guestsFrom(a, nodes, type, i) ==
  IF i > Len(nodes)
    THEN <<>>
    ELSE guestDevices(type, nodes[i], IF type = "lxc" THEN a.lxc[nodes[i]] ELSE a.vm[nodes[i]])
         \o guestsFrom(a, nodes, type, i + 1)

\* The CephFS storages from the k-th on, each on the first node of the
\* cluster; skipped when there is no node.
RECURSIVE storagesFrom(_, _, _)
storagesFrom(list, nodes, k) ==
  IF k > Len(list)
    THEN <<>>
    ELSE (IF list[k].type = "cephfs" /\ Len(nodes) > 0
            THEN <<Device("storage", nodes[1], Null, Val(list[k].storage))>>
            ELSE <<>>)
         \o storagesFrom(list, nodes, k + 1)

\* The list_devices handler: nodes, containers, machines, storages.
list_devices(a) ==
  IF a.nodes = Null
    THEN [ok |-> FALSE, text |-> <<"Failed to get resources">>, devices |-> <<>>]
    ELSE LET nodes == a.nodes[1]
         IN  [ok |-> TRUE, text |-> <<>>,
              devices |->
                [i \in 1..Len(nodes) |-> Device("node", nodes[i], Null, Null)]
                \o guestsFrom(a, nodes, "lxc", 1)
                \o guestsFrom(a, nodes, "vm", 1)
                \o (IF a.storage = Null THEN <<>>
                    ELSE storagesFrom(a.storage[1], nodes, 1))]

\* The vmid a search of the type looks for.
SearchedVmid(type) == IF type = "lxc" THEN 100 ELSE 200

InitPair ==
  /\ data = [type |-> "lxc"]
  /\ sinceTimestamp = 0
  /\ cap = [c \in requiredCapabilities |-> Null]
  /\ previousCounters = [netin |-> Null, netout |-> Null, diskread |-> Null,
                         diskwrite |-> Null]
  /\ previousState = [isRunning |-> Null, cpuPercent |-> 0, memPercent |-> 0,
                      networkTotal |-> 0, diskIOTotal |-> 0]
  /\ thresholdTracking = [cpu |-> [above |-> FALSE, threshold |-> 90],
                          memory |-> [above |-> FALSE, threshold |-> 90],
                          network |-> [above |-> FALSE, threshold |-> 10],
                          diskIO |-> [above |-> FALSE, threshold |-> 50]]
  /\ emitted = {}
  /\ outcome = "none"
  /\ cycle = 0
  /\ observed = Null
  /\ rateArgs = Null
  /\ rateResult = Null
  /\ location = Null
  /\ NoRequest
  /\ Scheduled
  /\ answers \in {Val(a) : a \in ClusterAnswers}
  /\ located = Null
  /\ devices = Null
  /\ NoExchange
  /\ Apart

\* findVMNode is called for a container or a virtual machine.
CallFindVMNode(type) ==
  /\ located = Null
  /\ located' = Val([type |-> type,
                     found |-> findVMNode(answers[1], SearchedVmid(type), type)])
  /\ UNCHANGED <<data, pollVars, cmdVars, schedVars, answers, devices, reqVars, apartVars>>

\* The list_devices handler of a pairing session runs.
CallListDevices ==
  /\ devices = Null
  /\ devices' = Val(list_devices(answers[1]))
  /\ UNCHANGED <<data, pollVars, cmdVars, schedVars, answers, located, reqVars, apartVars>>

NextPair ==
  \/ \E type \in {"lxc", "vm"} : CallFindVMNode(type)
  \/ CallListDevices

SpecPair == InitPair /\ [][NextPair]_vars

----------------------------------------------------------------------------
(* ProxmoxAPI.request: one https exchange.  The body is a sequence of
   tokens, which arrives in chunks; JSON.parse is a parser of the part of
   JSON the bodies use.  The platform delivers either an 'error' of the
   request before any response, or the response, its chunks and its 'end';
   a connection lost after the response began is delivered, as the runtime
   has it, as an early 'end' with the chunks so far or as nothing the code
   listens to. *)

StatusCodes == {200, 299, 300, 500}

\* {"data":1}  {"data":null}  {"errors":1}  {"data":{"errors":1}}  null  1
\* {"data":1  and the empty body.
Bodies ==
  {<<"{", "data", ":", "1", "}">>,
   <<"{", "data", ":", "null", "}">>,
   <<"{", "errors", ":", "1", "}">>,
   <<"{", "data", ":", "{", "errors", ":", "1", "}", "}">>,
   <<"null">>,
   <<"1">>,
   <<"{", "data", ":", "1">>,
   <<>>}

\* A body as the server sends it: in one chunk, or cut in two.
Chunkings(body) ==
  IF body = <<>>
    THEN {<<>>}
    ELSE {<<body>>}
         \cup {<<SubSeq(body, 1, k), SubSeq(body, k + 1, Len(body))>> : k \in 1..(Len(body) - 1)}

Exchanges ==
  UNION {[statusCode : StatusCodes, chunks : Chunkings(body)] : body \in Bodies}

\* JavaScript values: undefined, null, a number, an object with its members.
Undefined == [kind |-> "undefined", members |-> <<>>]

JsNull == [kind |-> "null", members |-> <<>>]

JsNumber == [kind |-> "number", members |-> <<>>]

JsObject(members) == [kind |-> "object", members |-> members]

\* The value at token i: null, 1, {} or {"key": value}.
RECURSIVE ParseValue(_, _)
ParseValue(t, i) ==
  LET syntaxError == [ok |-> FALSE, value |-> Undefined, next |-> i]
  IN  IF i > Len(t) THEN syntaxError
      ELSE IF t[i] = "null" THEN [ok |-> TRUE, value |-> JsNull, next |-> i + 1]
      ELSE IF t[i] = "1" THEN [ok |-> TRUE, value |-> JsNumber, next |-> i + 1]
      ELSE IF t[i] # "{" THEN syntaxError
      ELSE IF i + 1 <= Len(t) /\ t[i + 1] = "}"
        THEN [ok |-> TRUE, value |-> JsObject(<<>>), next |-> i + 2]
      ELSE IF i + 2 <= Len(t) /\ t[i + 1] \in {"data", "errors"} /\ t[i + 2] = ":"
        THEN LET v == ParseValue(t, i + 3)
             IN  IF v.ok /\ v.next <= Len(t) /\ t[v.next] = "}"
                   THEN [ok |-> TRUE, value |-> JsObject(<<<<t[i + 1], v.value>>>>),
                         next |-> v.next + 1]
                   ELSE syntaxError
      ELSE syntaxError

\* JSON.parse(data): Null for a SyntaxError.
JSONparse(t) ==
  LET r == ParseValue(t, 1)
  IN  IF r.ok /\ r.next = Len(t) + 1 THEN Val(r.value) ELSE Null

\* value.key, for a value that is not null.
Member(value, key) ==
  IF \E k \in 1..Len(value.members) : value.members[k][1] = key
    THEN (CHOOSE m \in {value.members[k] : k \in 1..Len(value.members)} : m[1] = key)[2]
    ELSE Undefined

resolve(value) == [fn |-> "resolve", value |-> value, text |-> ""]

reject(text) == [fn |-> "reject", value |-> Undefined, text |-> text]

\* The 'end' handler without the test of res.statusCode.
onEnd_anyStatus(statusCode, text) ==
  LET jsonData == JSONparse(text)
  IN  IF jsonData = Null \/ jsonData[1] = JsNull
        THEN reject("Failed to parse API response")
        ELSE resolve(Member(jsonData[1], "data"))

\* The 'end' handler: the call it makes.  A SyntaxError of JSON.parse and
\* the TypeError of reading .data or .errors of null both reach the catch.
onEnd(statusCode, text) ==
  LET jsonData == JSONparse(text)
  IN  IF jsonData = Null \/ jsonData[1] = JsNull
        THEN reject("Failed to parse API response")
        ELSE IF statusCode >= 200 /\ statusCode < 300
               THEN resolve(Member(jsonData[1], "data"))
               ELSE reject("API request failed")

\* The state of the Promise: the first call settles it, later ones are void.
Settled == IF calls = <<>> THEN Null ELSE Val(calls[1])

InitReq ==
  /\ data = [type |-> "lxc"]
  /\ sinceTimestamp = 0
  /\ cap = [c \in requiredCapabilities |-> Null]
  /\ previousCounters = [netin |-> Null, netout |-> Null, diskread |-> Null,
                         diskwrite |-> Null]
  /\ previousState = [isRunning |-> Null, cpuPercent |-> 0, memPercent |-> 0,
                      networkTotal |-> 0, diskIOTotal |-> 0]
  /\ thresholdTracking = [cpu |-> [above |-> FALSE, threshold |-> 90],
                          memory |-> [above |-> FALSE, threshold |-> 90],
                          network |-> [above |-> FALSE, threshold |-> 10],
                          diskIO |-> [above |-> FALSE, threshold |-> 50]]
  /\ emitted = {}
  /\ outcome = "none"
  /\ cycle = 0
  /\ observed = Null
  /\ rateArgs = Null
  /\ rateResult = Null
  /\ location = Null
  /\ NoRequest
  /\ Scheduled
  /\ NoPairing
  /\ Apart
  /\ exchange \in {Val(e) : e \in Exchanges}
  /\ stage = "sent"
  /\ buffer = <<>>
  /\ calls = <<>>

\* What an event of the exchange leaves alone.
idleVars == <<data, pollVars, cmdVars, schedVars, pairVars, apartVars>>

\* req.on('error'): the connection fails before a response.
RequestError ==
  /\ stage = "sent"
  /\ stage' = "failed"
  /\ calls' = Append(calls, reject("API request error"))
  /\ UNCHANGED <<exchange, buffer, idleVars>>

\* The response callback: let data = ''.
Response ==
  /\ stage = "sent"
  /\ stage' = "response"
  /\ buffer' = <<>>
  /\ UNCHANGED <<exchange, calls, idleVars>>

\* res.on('data'): data += chunk.
Data ==
  /\ stage = "response"
  /\ exchange[1].chunks # <<>>
  /\ buffer' = buffer \o Head(exchange[1].chunks)
  /\ exchange' = Val([exchange[1] EXCEPT !.chunks = Tail(@)])
  /\ UNCHANGED <<stage, calls, idleVars>>

\* res.on('end'), all chunks received.
End ==
  /\ stage = "response"
  /\ exchange[1].chunks = <<>>
  /\ stage' = "ended"
  /\ calls' = Append(calls, onEnd(exchange[1].statusCode, buffer))
  /\ UNCHANGED <<exchange, buffer, idleVars>>

\* The connection is lost with chunks outstanding: 'end' all the same, with
\* what was received, or no event the code listens to.
ConnectionLost ==
  /\ stage = "response"
  /\ exchange[1].chunks # <<>>
  /\ \/ /\ stage' = "ended"
        /\ calls' = Append(calls, onEnd(exchange[1].statusCode, buffer))
     \/ /\ stage' = "lost"
        /\ calls' = calls
  /\ UNCHANGED <<exchange, buffer, idleVars>>

NextReq ==
  \/ RequestError
  \/ Response
  \/ Data
  \/ End
  \/ ConnectionLost

SpecReq == InitReq /\ [][NextReq]_vars

----------------------------------------------------------------------------
(* The app's credential store: getCredentials, setCredentials *)

\* A JavaScript string or undefined that is truthy: defined and not empty.
Truthy(v) == v # Null /\ v # Val("")

Hosts == {Null, Val(""), Val("pve.lan")}
Ports == {Null, Val(""), Val("8006"), Val("443")}
TokenIDs == {Null, Val(""), Val("root@pam!homey")}
TokenSecrets == {Null, Val(""), Val("s3cr3t")}

\* What a caller may pass to setCredentials: nothing, or an object with any
\* of its fields missing or empty.
CredentialArguments ==
  {Null} \cup {Val(c) : c \in [host : Hosts, port : Ports, tokenID : TokenIDs,
                              tokenSecret : TokenSecrets]}

\* The setting as the app may find it: absent, or left with fields missing.
FoundSettings ==
  {Null,
   Val([host |-> Val("pve.lan"), port |-> Val("8006"), tokenID |-> Null,
        tokenSecret |-> Null])}

\* credentials && credentials.host && credentials.tokenID && credentials.tokenSecret
hasAll(credentials) ==
  /\ credentials # Null
  /\ Truthy(credentials[1].host)
  /\ Truthy(credentials[1].tokenID)
  /\ Truthy(credentials[1].tokenSecret)

\* The port stored as it was given.
portOrDefault_asGiven(port) == port

\* credentials.port || '8006'
portOrDefault(port) == IF Truthy(port) THEN port ELSE Val("8006")

credentialsToStore(c) ==
  [host |-> c.host, port |-> portOrDefault(c.port), tokenID |-> c.tokenID,
   tokenSecret |-> c.tokenSecret]

\* getCredentials on the setting `value`; `throws` when settings.get throws.
getCredentials(value, throws) ==
  IF throws THEN Null
  ELSE IF hasAll(value) THEN value ELSE Null

\* setCredentials on the setting `value`; `throws` when settings.set throws.
\* Gives the setting afterwards and the value returned.
setCredentials(value, credentials, throws) ==
  IF ~hasAll(credentials) THEN [stored |-> value, result |-> FALSE]
  ELSE IF throws THEN [stored |-> value, result |-> FALSE]
  ELSE [stored |-> Val(credentialsToStore(credentials[1])), result |-> TRUE]

InitCred ==
  /\ data = [type |-> "lxc"]
  /\ sinceTimestamp = 0
  /\ cap = [c \in requiredCapabilities |-> Null]
  /\ previousCounters = [netin |-> Null, netout |-> Null, diskread |-> Null,
                         diskwrite |-> Null]
  /\ previousState = [isRunning |-> Null, cpuPercent |-> 0, memPercent |-> 0,
                      networkTotal |-> 0, diskIOTotal |-> 0]
  /\ thresholdTracking = [cpu |-> [above |-> FALSE, threshold |-> 90],
                          memory |-> [above |-> FALSE, threshold |-> 90],
                          network |-> [above |-> FALSE, threshold |-> 10],
                          diskIO |-> [above |-> FALSE, threshold |-> 50]]
  /\ emitted = {}
  /\ outcome = "none"
  /\ cycle = 0
  /\ observed = Null
  /\ rateArgs = Null
  /\ rateResult = Null
  /\ location = Null
  /\ NoRequest
  /\ Scheduled
  /\ NoPairing
  /\ NoExchange
  /\ stored \in FoundSettings
  /\ accepted = Null
  /\ returned = Null
  /\ peer = Null
  /\ lastRunEvent = "none"
  /\ racing = <<>>

\* What a credentials call leaves alone.
calmVars == <<data, pollVars, cmdVars, schedVars, pairVars, reqVars, peer, lastRunEvent,
              racing>>

CallSetCredentials(credentials, throws) ==
  LET r == setCredentials(stored, credentials, throws)
  IN  /\ stored' = r.stored
      /\ accepted' = IF r.result THEN credentials ELSE accepted
      /\ returned' = Val([op |-> "set", argument |-> credentials, threw |-> throws,
                          result |-> r.result, value |-> Null])
      /\ UNCHANGED calmVars

CallGetCredentials(throws) ==
  /\ returned' = Val([op |-> "get", argument |-> Null, threw |-> throws,
                      result |-> FALSE, value |-> getCredentials(stored, throws)])
  /\ UNCHANGED <<stored, accepted, calmVars>>

NextCred ==
  \/ \E credentials \in CredentialArguments, throws \in BOOLEAN :
       CallSetCredentials(credentials, throws)
  \/ \E throws \in BOOLEAN : CallGetCredentials(throws)

SpecCred == InitCred /\ [][NextCred]_vars

----------------------------------------------------------------------------
(* Two devices side by side *)

\* Answers to this device: stopped, running hot, and a running sample of
\* the counters.
TwoStatuses ==
  {s \in GuestStatuses :
     \/ s.status = "stopped"
     \/ ("cpu" \in DOMAIN s /\ s.cpu = 9006 /\ "disk" \in DOMAIN s)
     \/ ("netout" \in DOMAIN s /\ s.netin = 10 * MiB)}

\* Answers to the other device: stopped, and another running sample of the
\* counters.
PeerStatuses ==
  {s \in GuestStatuses :
     \/ s.status = "stopped"
     \/ ("netout" \in DOMAIN s /\ s.netin = 15 * MiB)}

\* The fields onInit gives a device, and its capability values.
FreshDevice ==
  [cap |-> [c \in requiredCapabilities |-> Null],
   previousCounters |-> [netin |-> Null, netout |-> Null, diskread |-> Null,
                         diskwrite |-> Null],
   sinceTimestamp |-> 0,
   previousState |-> [isRunning |-> Null, cpuPercent |-> 0, memPercent |-> 0,
                      networkTotal |-> 0, diskIOTotal |-> 0],
   thresholdTracking |-> [cpu |-> [above |-> FALSE, threshold |-> 90],
                          memory |-> [above |-> FALSE, threshold |-> 90],
                          network |-> [above |-> FALSE, threshold |-> 10],
                          diskIO |-> [above |-> FALSE, threshold |-> 50]],
   emitted |-> {},
   outcome |-> "none",
   cycle |-> 0]

\* The lxc and vm branches of updateStatus up to the call of updateAlarms, on
\* the fields `dev` of a device: on/off, the vitals and the rates are
\* written.  Gives also the cycle's isRunning, cpuPercent and memPercent.
guestMetrics(dev, status) ==
  LET isRunning == guestRunning(status)
      hasCpu == "cpu" \in DOMAIN status
      hasMem == /\ "mem" \in DOMAIN status
                /\ "maxmem" \in DOMAIN status
                /\ status.maxmem > 0
      hasDisk == /\ "disk" \in DOMAIN status
                 /\ "maxdisk" \in DOMAIN status
                 /\ status.maxdisk > 0
      hasUptime == "uptime" \in DOMAIN status
      cpuPercent == IF isRunning /\ hasCpu
                      THEN roundToOneDecimal(status.cpu * 100, 10000) ELSE 0
      memPercent == IF isRunning /\ hasMem
                      THEN roundToOneDecimal(status.mem * 100, status.maxmem) ELSE 0
      c0 == [dev.cap EXCEPT !["onoff"] = Val(isRunning)]
      c1 == IF hasCpu THEN [c0 EXCEPT !["measure_cpu"] = Val(cpuPercent)] ELSE c0
      c2 == IF hasMem THEN [c1 EXCEPT !["measure_memory"] = Val(memPercent)] ELSE c1
      c3 == IF hasDisk
              THEN [c2 EXCEPT !["measure_disk"] =
                      Val(roundToOneDecimal(status.disk * 100, status.maxdisk))]
              ELSE c2
      c4 == IF hasUptime
              THEN [c3 EXCEPT !["sensor_uptime"] = Val(roundToOneDecimal(status.uptime, 3600))]
              ELSE c3
      stopped == zeroRates([c0 EXCEPT !["measure_cpu"] = Val(0),
                                      !["measure_memory"] = Val(0),
                                      !["measure_disk"] = Val(0),
                                      !["sensor_uptime"] = Val(0)])
      m == IF isRunning
             THEN updateIOMetrics([cap |-> c4, previousCounters |-> dev.previousCounters,
                                   sinceTimestamp |-> dev.sinceTimestamp], status)
             ELSE [cap |-> stopped, previousCounters |-> dev.previousCounters,
                   sinceTimestamp |-> dev.sinceTimestamp]
  IN  [cap |-> m.cap,
       previousCounters |-> m.previousCounters,
       sinceTimestamp |-> m.sinceTimestamp,
       isRunning |-> isRunning,
       cpuPercent |-> cpuPercent,
       memPercent |-> memPercent]

\* A whole cycle of a guest on the fields `dev` of a device.
guestCycle(dev, status) ==
  LET g == guestMetrics(dev, status)
      c == updateAlarms(g.cap, g.cpuPercent, g.memPercent, g.isRunning)
      f == checkAndTriggerFlowCards(c, dev.previousState, dev.thresholdTracking,
                                    g.isRunning, g.cpuPercent, g.memPercent)
  IN  [cap |-> c,
       previousCounters |-> g.previousCounters,
       sinceTimestamp |-> g.sinceTimestamp,
       previousState |-> f.previousState,
       thresholdTracking |-> f.thresholdTracking,
       emitted |-> f.fired,
       outcome |-> "ok",
       cycle |-> 1 - dev.cycle]

\* The catch block of updateStatus on the fields `dev` of a device.
failedCycle(dev) ==
  [dev EXCEPT !.cap = [@ EXCEPT !["alarm_generic"] = Val(TRUE),
                                !["alarm_connectivity"] = Val(TRUE)],
              !.emitted = {"device_unreachable"},
              !.outcome = "error",
              !.cycle = 1 - @]

\* this.thresholdTracking as one object shared by the devices.
ownTracking_shared(mine, theirs) == theirs

\* this.thresholdTracking is an object made in onInit, one for each device:
\* what another device's cycle stores in its own leaves `mine` as it is.
ownTracking(mine, theirs) == mine

\* The run-state card fired last, after a cycle that fired `fired`.
lastRunEventAfter(last, fired) ==
  IF "vm_started" \in fired THEN "started"
  ELSE IF "vm_stopped" \in fired THEN "stopped"
  ELSE last

InitTwo ==
  /\ data = [type |-> "vm"]
  /\ sinceTimestamp = 0
  /\ cap = [c \in requiredCapabilities |-> Null]
  /\ previousCounters = [netin |-> Null, netout |-> Null, diskread |-> Null,
                         diskwrite |-> Null]
  /\ previousState = [isRunning |-> Null, cpuPercent |-> 0, memPercent |-> 0,
                      networkTotal |-> 0, diskIOTotal |-> 0]
  /\ thresholdTracking = [cpu |-> [above |-> FALSE, threshold |-> 90],
                          memory |-> [above |-> FALSE, threshold |-> 90],
                          network |-> [above |-> FALSE, threshold |-> 10],
                          diskIO |-> [above |-> FALSE, threshold |-> 50]]
  /\ emitted = {}
  /\ outcome = "none"
  /\ cycle = 0
  /\ observed = Null
  /\ rateArgs = Null
  /\ rateResult = Null
  /\ location = Null
  /\ NoRequest
  /\ Scheduled
  /\ NoPairing
  /\ NoExchange
  /\ stored = Null
  /\ accepted = Null
  /\ returned = Null
  /\ peer = FreshDevice
  /\ lastRunEvent = "none"
  /\ racing = <<>>

\* What the cycles of the two devices leave alone.
asideVars == <<cmdVars, schedVars, pairVars, reqVars, stored, accepted, returned, racing>>

\* A cycle of this device ends on an answer.
PollThis(status) ==
  /\ UpdateStatusVM(status)
  /\ lastRunEvent' = lastRunEventAfter(lastRunEvent, emitted')
  /\ UNCHANGED <<peer, asideVars>>

\* A cycle of this device fails.
FailThis ==
  /\ UpdateStatusError
  /\ lastRunEvent' = lastRunEventAfter(lastRunEvent, emitted')
  /\ UNCHANGED <<peer, asideVars>>

\* A cycle of the other device ends on an answer.
PollPeer(status) ==
  /\ peer' = guestCycle(peer, status)
  /\ thresholdTracking' = ownTracking(thresholdTracking, peer'.thresholdTracking)
  /\ UNCHANGED <<data, sinceTimestamp, cap, previousCounters, previousState, emitted,
                 outcome, cycle, observed, rateArgs, rateResult, lastRunEvent, asideVars>>

\* A cycle of the other device fails.
FailPeer ==
  /\ peer' = failedCycle(peer)
  /\ thresholdTracking' = ownTracking(thresholdTracking, peer'.thresholdTracking)
  /\ UNCHANGED <<data, sinceTimestamp, cap, previousCounters, previousState, emitted,
                 outcome, cycle, observed, rateArgs, rateResult, lastRunEvent, asideVars>>

\* A second passes, for both devices.
TickTwo ==
  /\ peer.sinceTimestamp + 1000 <= MaxElapsed * 1000
  /\ peer' = [peer EXCEPT !.sinceTimestamp = @ + 1000]
  /\ Tick
  /\ UNCHANGED <<lastRunEvent, asideVars>>

NextTwo ==
  \/ \E status \in TwoStatuses : PollThis(status)
  \/ FailThis
  \/ \E status \in PeerStatuses : PollPeer(status)
  \/ FailPeer
  \/ TickTwo

SpecTwo == InitTwo /\ [][NextTwo]_vars

----------------------------------------------------------------------------
(* Cycles of one device interleaved at their awaits *)

\* The invocations of updateStatus that may be under way together.
Racers == {"first", "second"}

\* Answers to a racing cycle: stopped, running with the CPU or the memory
\* above 90 %, and running cool.  They carry no counters, so the clock,
\* which only the rates read, stands still here.
RaceStatuses ==
  {s \in GuestStatuses :
     \/ s.status = "stopped"
     \/ ("cpu" \in DOMAIN s /\ s.cpu \in {8500, 9006} /\ "disk" \in DOMAIN s)
     \/ ("mem" \in DOMAIN s /\ s.mem = 950 /\ "disk" \in DOMAIN s)}

\* The flags as they were when the cycle's status arrived.
flagsChecked_onArrival(now, onArrival) == onArrival

\* checkAndTriggerFlowCards has no await between reading a flag and writing
\* it: the flags it tests are those of the moment it runs.
flagsChecked(now, onArrival) == now

InitRace ==
  /\ data = [type |-> "vm"]
  /\ sinceTimestamp = 0
  /\ cap = [c \in requiredCapabilities |-> Null]
  /\ previousCounters = [netin |-> Null, netout |-> Null, diskread |-> Null,
                         diskwrite |-> Null]
  /\ previousState = [isRunning |-> Null, cpuPercent |-> 0, memPercent |-> 0,
                      networkTotal |-> 0, diskIOTotal |-> 0]
  /\ thresholdTracking = [cpu |-> [above |-> FALSE, threshold |-> 90],
                          memory |-> [above |-> FALSE, threshold |-> 90],
                          network |-> [above |-> FALSE, threshold |-> 10],
                          diskIO |-> [above |-> FALSE, threshold |-> 50]]
  /\ emitted = {}
  /\ outcome = "none"
  /\ cycle = 0
  /\ observed = Null
  /\ rateArgs = Null
  /\ rateResult = Null
  /\ location = Null
  /\ NoRequest
  /\ Scheduled
  /\ NoPairing
  /\ NoExchange
  /\ stored = Null
  /\ accepted = Null
  /\ returned = Null
  /\ peer = Null
  /\ lastRunEvent = "none"
  /\ racing = [r \in Racers |-> Null]

\* What a racing cycle leaves alone.
trackVars == <<data, rateArgs, rateResult, cmdVars, schedVars, pairVars, reqVars, stored,
               accepted, returned, peer, lastRunEvent>>

\* updateStatus is called: the status request is sent.
RaceStart(r) ==
  /\ racing[r] = Null
  /\ racing' = [racing EXCEPT ![r] = Val([at |-> "fetch", isRunning |-> FALSE,
                                          cpuPercent |-> 0, memPercent |-> 0,
                                          onArrival |-> FreshDevice.thresholdTracking])]
  /\ UNCHANGED <<pollVars, trackVars>>

\* The status arrives: on/off, the vitals and the rates are written, up to
\* the await inside updateAlarms.
RaceAnswer(r, status) ==
  /\ racing[r] # Null
  /\ racing[r][1].at = "fetch"
  /\ LET g == guestMetrics([cap |-> cap, previousCounters |-> previousCounters,
                            sinceTimestamp |-> sinceTimestamp], status)
     IN  /\ cap' = g.cap
         /\ previousCounters' = g.previousCounters
         /\ sinceTimestamp' = g.sinceTimestamp
         /\ racing' = [racing EXCEPT ![r] = Val([at |-> "alarms",
                                                 isRunning |-> g.isRunning,
                                                 cpuPercent |-> g.cpuPercent,
                                                 memPercent |-> g.memPercent,
                                                 onArrival |-> thresholdTracking])]
  /\ UNCHANGED <<previousState, thresholdTracking, emitted, outcome, cycle, observed,
                 trackVars>>

\* The status request rejects: the catch block.
RaceFail(r) ==
  /\ racing[r] # Null
  /\ racing[r][1].at = "fetch"
  /\ UpdateStatusError
  /\ racing' = [racing EXCEPT ![r] = Null]
  /\ UNCHANGED <<cmdVars, schedVars, pairVars, reqVars, stored, accepted, returned, peer,
                 lastRunEvent>>

\* updateAlarms writes the two alarms, from the cycle's own values.
RaceAlarms(r) ==
  /\ racing[r] # Null
  /\ racing[r][1].at = "alarms"
  /\ cap' = updateAlarms(cap, racing[r][1].cpuPercent, racing[r][1].memPercent,
                         racing[r][1].isRunning)
  /\ racing' = [racing EXCEPT ![r] = Val([@[1] EXCEPT !.at = "cards"])]
  /\ UNCHANGED <<sinceTimestamp, previousCounters, previousState, thresholdTracking, emitted,
                 outcome, cycle, observed, trackVars>>

\* checkAndTriggerFlowCards runs, in one piece, and the cycle ends.
RaceCards(r) ==
  /\ racing[r] # Null
  /\ racing[r][1].at = "cards"
  /\ LET mine == racing[r][1]
         f == checkAndTriggerFlowCards(cap, previousState,
                                       flagsChecked(thresholdTracking, mine.onArrival),
                                       mine.isRunning, mine.cpuPercent, mine.memPercent)
     IN  /\ previousState' = f.previousState
         /\ thresholdTracking' = f.thresholdTracking
         /\ emitted' = f.fired
         /\ observed' = Val([isRunning |-> mine.isRunning, cpuPercent |-> mine.cpuPercent,
                             memPercent |-> mine.memPercent])
  /\ outcome' = "ok"
  /\ cycle' = 1 - cycle
  /\ racing' = [racing EXCEPT ![r] = Null]
  /\ UNCHANGED <<cap, sinceTimestamp, previousCounters, trackVars>>

NextRace ==
  \/ \E r \in Racers : RaceStart(r)
  \/ \E r \in Racers, status \in RaceStatuses : RaceAnswer(r, status)
  \/ \E r \in Racers : RaceFail(r)
  \/ \E r \in Racers : RaceAlarms(r)
  \/ \E r \in Racers : RaceCards(r)

SpecRace == InitRace /\ [][NextRace]_vars

----------------------------------------------------------------------------
(* Properties *)

\* The step is a poll cycle that ended without an error.
SuccessfulPoll == cycle' # cycle /\ outcome' = "ok"

\* C1: at a successful poll the cpu-above-threshold card fires exactly when
\* the cycle's CPU percent is strictly above 90 and the cpu `above` flag was
\* clear before the poll; a firing sets the flag, and while the value stays
\* above 90 the flag stays set, so no further card fires.  The same for
\* memory and the memory-above-threshold card.
C1_AboveEventOncePerCrossing ==
  [][SuccessfulPoll =>
       /\ ("cpu_above_threshold" \in emitted')
            = (observed'[1].cpuPercent > 900 /\ ~thresholdTracking.cpu.above)
       /\ observed'[1].cpuPercent > 900 => thresholdTracking'.cpu.above
       /\ ("memory_above_threshold" \in emitted')
            = (observed'[1].memPercent > 900 /\ ~thresholdTracking.memory.above)
       /\ observed'[1].memPercent > 900 => thresholdTracking'.memory.above]_vars

\* A successful poll found the CPU above 90 with the flag already set and
\* fired nothing.
C1_Witness ==
  /\ outcome = "ok"
  /\ observed[1].cpuPercent > 900
  /\ thresholdTracking.cpu.above
  /\ "cpu_above_threshold" \notin emitted

\* C2: the cpu (memory) `above` flag goes from set to clear only at a
\* successful poll whose CPU (memory) percent is at or below 85; a
\* successful poll whose value lies in (85, 90] leaves the flag as it was
\* and fires no card for it.
C2_ResetOnlyAtOrBelow85 ==
  [][/\ (thresholdTracking.cpu.above /\ ~thresholdTracking'.cpu.above)
          => (SuccessfulPoll /\ observed'[1].cpuPercent <= 850)
     /\ (thresholdTracking.memory.above /\ ~thresholdTracking'.memory.above)
          => (SuccessfulPoll /\ observed'[1].memPercent <= 850)
     /\ (SuccessfulPoll /\ observed'[1].cpuPercent > 850 /\ observed'[1].cpuPercent <= 900)
          => /\ thresholdTracking'.cpu.above = thresholdTracking.cpu.above
             /\ "cpu_above_threshold" \notin emitted'
     /\ (SuccessfulPoll /\ observed'[1].memPercent > 850 /\ observed'[1].memPercent <= 900)
          => /\ thresholdTracking'.memory.above = thresholdTracking.memory.above
             /\ "memory_above_threshold" \notin emitted']_vars

\* A successful poll at exactly 90 % found the cpu flag set and left it set.
C2_Witness ==
  /\ outcome = "ok"
  /\ observed[1].cpuPercent = 900
  /\ thresholdTracking.cpu.above
  /\ "cpu_above_threshold" \notin emitted

\* The reported rates summed as the tracker reads them, in hundredths of MB/s.
ReportedTotal(c, a, b) ==
  (IF c[a] = Null THEN 0 ELSE c[a][1]) + (IF c[b] = Null THEN 0 ELSE c[b][1])

ReportedNetwork(c) == ReportedTotal(c, "measure_network_in", "measure_network_out")

ReportedDiskIO(c) == ReportedTotal(c, "measure_disk_read", "measure_disk_write")

\* C3: at a successful poll the high-network-traffic card fires exactly when
\* the reported network rate is above 10 MB/s and the network flag was clear;
\* the flag is then set, it is cleared exactly when the rate is at or below
\* 8 MB/s, and a rate in between changes nothing; no other step changes the
\* flag.  The same for disk I/O with 50 and 40 MB/s.
C3_RateEventOncePerCrossing ==
  [][/\ SuccessfulPoll =>
          /\ ("high_network_traffic" \in emitted')
               = (ReportedNetwork(cap') > 1000 /\ ~thresholdTracking.network.above)
          /\ thresholdTracking'.network.above
               = IF ReportedNetwork(cap') > 1000 THEN TRUE
                 ELSE IF ReportedNetwork(cap') <= 800 THEN FALSE
                 ELSE thresholdTracking.network.above
          /\ ("high_disk_io" \in emitted')
               = (ReportedDiskIO(cap') > 5000 /\ ~thresholdTracking.diskIO.above)
          /\ thresholdTracking'.diskIO.above
               = IF ReportedDiskIO(cap') > 5000 THEN TRUE
                 ELSE IF ReportedDiskIO(cap') <= 4000 THEN FALSE
                 ELSE thresholdTracking.diskIO.above
     /\ ~SuccessfulPoll =>
          /\ thresholdTracking'.network.above = thresholdTracking.network.above
          /\ thresholdTracking'.diskIO.above = thresholdTracking.diskIO.above]_vars

\* A successful poll found both rates at their trigger levels, 10.00 and
\* 50.00 MB/s, with both flags set, and changed and fired nothing.
C3_Witness ==
  /\ outcome = "ok"
  /\ ReportedNetwork(cap) = 1000
  /\ ReportedDiskIO(cap) = 5000
  /\ thresholdTracking.network.above
  /\ thresholdTracking.diskIO.above
  /\ emitted = {}

\* C4: the first successful poll fires neither the started nor the stopped
\* card; a later successful poll fires the started card exactly when the
\* running state went from false to true since the previous successful poll
\* (`observed` before the step), the stopped card exactly when it went from
\* true to false.
C4_RunStateEdges ==
  [][SuccessfulPoll =>
       /\ ("vm_started" \in emitted')
            = (observed # Null /\ ~observed[1].isRunning /\ observed'[1].isRunning)
       /\ ("vm_stopped" \in emitted')
            = (observed # Null /\ observed[1].isRunning /\ ~observed'[1].isRunning)]_vars

\* A stopped card fired at a poll that came after a failed one.
C4_Witness ==
  /\ outcome = "ok"
  /\ "vm_stopped" \in emitted
  /\ cap["alarm_generic"] = Val(TRUE)

\* C5: for a stored previous value p, a current value c >= p and an interval
\* of s > 0 seconds, calculateRate returns (c - p) / s / 1048576 rounded to
\* two decimals (half up); for c < p it returns 0.  Rates are in hundredths
\* of MB/s, so the result r satisfies
\* -s * 524288 < r * s * 1048576 - 100 * (c - p) <= s * 524288.
C5_RateFormula ==
  (rateArgs # Null /\ rateResult # Null /\ rateArgs[1].previousValue # Null) =>
    LET c == rateArgs[1].currentValue
        p == rateArgs[1].previousValue[1]
        sec == rateArgs[1].intervalSeconds
        r == rateResult[1]
        D == r * sec * MiB - 100 * (c - p)
    IN  /\ c >= p => (D > -(sec * 524288) /\ D <= sec * 524288)
        /\ c < p => r = 0

\* 15 MiB over 30 seconds gives 0.50 MB/s.
C5_Witness ==
  /\ rateResult = Val(50)
  /\ rateArgs[1].currentValue = 16 * MiB
  /\ rateArgs[1].previousValue = Val(MiB)
  /\ rateArgs[1].intervalSeconds = 30

----------------------------------------------------------------------------

RateCounterNames == {"netin", "netout", "diskread", "diskwrite"}

RateCapabilities == {RateCapability(counter) : counter \in RateCounterNames}

\* The step is a poll of a node, or of a guest, that read `status`.
NodePollOf(status) == UpdateStatusNode(status)

GuestPollOf(status) == UpdateStatusLXC(status) \/ UpdateStatusVM(status)

\* `status` carries `counter` below the stored previous value.
CounterWentBack(status, counter) ==
  /\ counter \in DOMAIN status
  /\ previousCounters[counter] # Null
  /\ status[counter] < previousCounters[counter][1]

\* The cycle's rate for `counter` is 0 and its stored previous value is the
\* sample's.
RebasedAtZero(status, counter) ==
  /\ cap'[RateCapability(counter)] = Val(0)
  /\ previousCounters'[counter] = Val(status[counter])

\* The counters of `status` that went back are rebased at a rate of 0.
CountersRebased(status) ==
  \A counter \in RateCounterNames :
    CounterWentBack(status, counter) => RebasedAtZero(status, counter)

\* C6 as stated: every reported rate is >= 0, and in any cycle whose running
\* sample carries a counter below the stored previous value, that counter's
\* rate is 0 and the stored previous value becomes the sample's.
C6_Original ==
  [][/\ \A m \in RateCapabilities : cap'[m] = Null \/ cap'[m][1] >= 0
     /\ (SuccessfulPoll /\ observed'[1].isRunning) =>
          /\ \A status \in NodeStatuses : NodePollOf(status) => CountersRebased(status)
          /\ \A status \in GuestStatuses : GuestPollOf(status) => CountersRebased(status)]_vars

\* C6: every reported rate is >= 0, and in any cycle with a positive elapsed
\* interval (the clock moves in whole seconds) whose
\* running sample carries a counter below the stored previous value, that
\* counter's rate is 0 and the stored previous value becomes the sample's.
C6_NonNegativeAndRebased ==
  [][/\ \A m \in RateCapabilities : cap'[m] = Null \/ cap'[m][1] >= 0
     /\ (SuccessfulPoll /\ observed'[1].isRunning /\ sinceTimestamp >= 1000) =>
          /\ \A status \in NodeStatuses : NodePollOf(status) => CountersRebased(status)
          /\ \A status \in GuestStatuses : GuestPollOf(status) => CountersRebased(status)]_vars

\* The sample with netin of 10 MiB alone was read after netin of 15 MiB and
\* netout of 13 MiB were stored, a second or more later.
C6_Witness ==
  /\ outcome = "ok"
  /\ sinceTimestamp = 0
  /\ previousCounters["netin"] = Val(10 * MiB)
  /\ previousCounters["netout"] = Val(13 * MiB)
  /\ cap["measure_network_in"] = Val(0)

\* C7: while no previous value is stored for a counter, no step reports a
\* rate other than 0 for it; the cycle that stores the counter's first value
\* is a successful poll of a running entity and reports 0 for it.
C7_ColdStartRateZero ==
  [][\A counter \in RateCounterNames :
       previousCounters[counter] = Null =>
         /\ cap'[RateCapability(counter)] \in {Null, Val(0)}
         /\ previousCounters'[counter] # Null =>
              /\ SuccessfulPoll
              /\ observed'[1].isRunning
              /\ cap'[RateCapability(counter)] = Val(0)]_vars

\* The first sample that carried netin stored it and reported 0; netout has
\* never been sampled.
C7_Witness ==
  /\ outcome = "ok"
  /\ previousCounters["netin"] = Val(10 * MiB)
  /\ previousCounters["netout"] = Null
  /\ cap["measure_network_in"] = Val(0)
  /\ cap["measure_network_out"] = Null

\* C8: a successful poll of a running entity at an elapsed interval of zero
\* or less leaves the four previous counters, the stored timestamp and the
\* four rates as they were.
C8_NonPositiveIntervalSkipped ==
  [][(SuccessfulPoll /\ observed'[1].isRunning /\ sinceTimestamp <= 0) =>
       /\ previousCounters' = previousCounters
       /\ sinceTimestamp' = sinceTimestamp
       /\ \A m \in RateCapabilities : cap'[m] = cap[m]]_vars

\* A running sample with counters (CPU 90.0 %, memory 90.0 %) was read with
\* the clock behind the stored timestamp, and nothing was stored.
C8_Witness ==
  /\ outcome = "ok"
  /\ observed # Null
  /\ observed[1].isRunning
  /\ sinceTimestamp < 0
  /\ cap["measure_cpu"] = Val(900)
  /\ cap["measure_memory"] = Val(900)
  /\ previousCounters["netin"] = Null

\* C9 as stated: after a successful poll that observed the entity offline or
\* stopped, none of CPU, memory, disk, uptime and the four rates holds a
\* non-zero value.
C9_AllZeroWhenNotRunning ==
  (outcome = "ok" /\ observed # Null /\ ~observed[1].isRunning) =>
    \A m \in {"measure_cpu", "measure_memory", "measure_disk", "sensor_uptime"}
               \cup RateCapabilities :
      cap[m] \in {Null, Val(0)}

\* C10: after a cycle whose status fetch failed, alarm_generic and
\* alarm_connectivity are true and the device-unreachable card was fired by
\* that cycle.
C10_FailureRaisesAlarms ==
  outcome = "error" =>
    /\ cap["alarm_generic"] = Val(TRUE)
    /\ cap["alarm_connectivity"] = Val(TRUE)
    /\ "device_unreachable" \in emitted

\* A fetch failed after a poll had seen the entity running.
C10_Witness ==
  /\ outcome = "error"
  /\ cap["onoff"] = Val(TRUE)
  /\ cap["alarm_connectivity"] = Val(TRUE)
  /\ emitted = {"device_unreachable"}

----------------------------------------------------------------------------

\* The step is a poll cycle that ended in the catch block.
FailedPoll == cycle' # cycle /\ outcome' = "error"

\* The capabilities a poll reports, the two error alarms aside.
ReportedCapabilities ==
  {"onoff", "measure_cpu", "measure_memory", "measure_disk", "sensor_uptime",
   "alarm_heat"} \cup RateCapabilities

\* C11: a poll cycle whose status fetch fails leaves on/off, CPU, memory,
\* disk, uptime, the four rates and the heat alarm as they were, leaves the
\* `above` flags and the previous run state as they were, and fires no
\* started, stopped or threshold card.
C11_FailureKeepsLastKnownGood ==
  [][FailedPoll =>
       /\ \A m \in ReportedCapabilities : cap'[m] = cap[m]
       /\ thresholdTracking' = thresholdTracking
       /\ previousState' = previousState
       /\ previousCounters' = previousCounters
       /\ emitted' \cap {"vm_started", "vm_stopped", "cpu_above_threshold",
                         "memory_above_threshold", "high_network_traffic",
                         "high_disk_io"} = {}]_vars

\* A fetch failed after a poll that had reported CPU 90.1 % with the cpu flag
\* set; the value, the heat alarm and the flag are still there.
C11_Witness ==
  /\ outcome = "error"
  /\ cap["measure_cpu"] = Val(901)
  /\ cap["alarm_heat"] = Val(TRUE)
  /\ cap["onoff"] = Val(TRUE)
  /\ thresholdTracking.cpu.above

\* C12 as stated: after every successful poll cycle the generic-error alarm
\* is not true.
C12_GenericAlarmClearedOnSuccess ==
  outcome = "ok" => cap["alarm_generic"] # Val(TRUE)

\* C13 as stated: at the end of a poll cycle the connectivity alarm is true
\* after a failed fetch and false after a successful one, whatever on/off
\* state the status reports.
C13_Original ==
  /\ outcome = "error" => cap["alarm_connectivity"] = Val(TRUE)
  /\ outcome = "ok" => cap["alarm_connectivity"] = Val(FALSE)

\* C13: at the end of a poll cycle the connectivity alarm is true exactly
\* when the fetch failed or the fetched status reports the entity offline or
\* stopped, and false after a successful fetch that reports it online or
\* running.
C13_ConnectivityAlarm ==
  /\ outcome = "error" => cap["alarm_connectivity"] = Val(TRUE)
  /\ outcome = "ok" => cap["alarm_connectivity"] = Val(~observed[1].isRunning)

\* No fetch has failed, and a successful poll that found the entity stopped
\* or offline raised the connectivity alarm.
C13_Witness ==
  /\ outcome = "ok"
  /\ ~observed[1].isRunning
  /\ cap["alarm_generic"] = Null
  /\ cap["alarm_connectivity"] = Val(TRUE)

\* C14: after every successful poll cycle the heat alarm equals (CPU percent
\* > 90 or memory percent > 90) for the percents that cycle computed; a step
\* that is no successful poll leaves the alarm as it was.
C14_HeatAlarm ==
  [][/\ SuccessfulPoll =>
          cap'["alarm_heat"] = Val(observed'[1].cpuPercent > 900
                                     \/ observed'[1].memPercent > 900)
     /\ ~SuccessfulPoll => cap'["alarm_heat"] = cap["alarm_heat"]]_vars

\* The alarm is set by the memory percent alone, at CPU 90.0 % and memory
\* 95.0 %.
C14_Witness ==
  /\ outcome = "ok"
  /\ observed[1].cpuPercent = 900
  /\ observed[1].memPercent = 950
  /\ cap["alarm_heat"] = Val(TRUE)

----------------------------------------------------------------------------

\* The step on which findVMNode returns; newNode' is what it returned.
SearchEnds == pc \in {"getNodes", "list"} /\ pc' \notin {"getNodes", "list"}

\* The step on which a handler that sent a command ends.
HandlerEnds == pc # "idle" /\ pc' = "idle"

\* C15: when the first restart command has failed and findVMNode returns a
\* node other than data.node, data.node and the stored node become that
\* node and one more restart command is sent, to that node, the second and
\* last of the request; the request then fails only if that command fails.
C15_RestartMigrates ==
  [][/\ (SearchEnds /\ newNode' # Null /\ newNode'[1] # data.node) =>
          /\ pc' = "retry"
          /\ data'.node = newNode'[1]
          /\ store'.node = newNode'
          /\ issued' = <<Call("restart", data.node), Call("restart", newNode'[1])>>
          /\ inflight' = {Call("restart", newNode'[1])}
     /\ pc = "retry" =>
          /\ issued' = issued
          /\ searches' = searches
          /\ data' = data
          /\ pc' = "idle" => (result'[1].ok \/ result'[1].cause = Val(issued[2]))]_vars

\* The restart on pve1 failed, the guest was found on pve2 and the retry
\* there succeeded.
C15_Witness ==
  /\ result = Val(succeeded)
  /\ issued = <<Call("restart", "pve1"), Call("restart", "pve2")>>
  /\ data.node = "pve2"
  /\ store.node = Val("pve2")
  /\ searches = 1

\* C16: when the first restart command has failed and findVMNode returns
\* data.node itself or null, no second restart command is sent, data.node
\* and the store are left as they were, and the request fails with the
\* error of the first restart command, wrapped.
C16_NoMigrationNoRetry ==
  [][(SearchEnds /\ (newNode' = Null \/ newNode'[1] = data.node)) =>
       /\ pc' = "idle"
       /\ issued' = issued
       /\ issued = <<Call("restart", data.node)>>
       /\ data' = data
       /\ store' = store
       /\ result' = Val(wrapped("Failed to restart", data.type, issued[1]))]_vars

\* The restart failed, the search found the guest on the recorded node, and
\* the first error came back.
C16_Witness ==
  /\ result # Null
  /\ ~result[1].ok
  /\ newNode = Val("pve1")
  /\ data.node = "pve1"
  /\ store.node = Null
  /\ issued = <<Call("restart", "pve1")>>
  /\ result[1].cause = Val(Call("restart", "pve1"))

\* C17: a request sends at most two commands and calls findVMNode at most
\* once; the answer to the retry ends the request, an error of the retry is
\* the error of the request, with no further search or command; findVMNode
\* has at most one query outstanding and moves from one node to the next.
C17_BoundedSequentialRetry ==
  [][/\ Len(issued') <= 2
     /\ searches' <= 1
     /\ Cardinality(inflight') <= 1
     /\ pc = "retry" =>
          /\ pc' \in {"retry", "idle"}
          /\ issued' = issued
          /\ searches' = searches
          /\ (pc' = "idle" /\ ~result'[1].ok) =>
               result'[1] = wrapped("Failed to restart", data.type, issued[2])
     /\ (pc = "list" /\ pc' = "list" /\ searchAt' # searchAt) =>
          /\ searchAt' = searchAt + 1
          /\ inflight' = {Call("list", ClusterNodes[searchAt'])}]_vars

\* The retry on the discovered node failed and its error ended the request.
C17_Witness ==
  /\ pc = "idle"
  /\ result # Null
  /\ ~result[1].ok
  /\ Len(issued) = 2
  /\ result[1].cause = Val(issued[2])
  /\ searches = 1

\* C18 as stated: a start or stop request for a VM or container that has
\* ended has sent exactly one start or stop command, to data.node, has made
\* no search, and if it failed its error wraps that command's.
C18_StartStopOneCommand ==
  (/\ result # Null
   /\ request # Null
   /\ request[1].kind \in {"start", "stop"}
   /\ data.type \in {"lxc", "vm"}) =>
    /\ issued = <<Call(request[1].kind, data.node)>>
    /\ searches = 0
    /\ ~result[1].ok => result[1].cause = Val(issued[1])

RejectionTexts ==
  [start |-> <<"This device cannot be started">>,
   stop |-> <<"This device cannot be stopped">>,
   restart |-> <<"This device cannot be restarted">>]

\* C19: on a node or storage device no step sends a command or changes the
\* device's data, capabilities, store, poll state or timers, and a start,
\* stop or restart request ends at once with the error that says the device
\* cannot be started, stopped or restarted.
C19_NodeAndStorageRejected ==
  [][data.type \in {"node", "storage"} =>
       /\ UNCHANGED <<data, pollVars, store, pc, timers>>
       /\ issued' = <<>>
       /\ inflight' = {}
       /\ scheduled' = <<>>
       /\ request' # Null =>
            result' = Val([ok |-> FALSE, text |-> RejectionTexts[request'[1].kind],
                           cause |-> Null])]_vars

\* A restart request on a node was rejected.
C19_Witness ==
  /\ data.type = "node"
  /\ request = Val([kind |-> "restart", via |-> "card"])
  /\ result = Val(rejected("This device cannot be restarted"))
  /\ timers = 0

\* C20: a handler that sent a start, stop or restart command and ends
\* without an error has scheduled exactly one refresh, with a delay of 3000
\* ms; one that ends with an error has scheduled none; refresh timers are
\* scheduled by no other step.
C20_OneRefreshAfterSuccess ==
  [][/\ HandlerEnds =>
          IF result'[1].ok
            THEN scheduled' = <<3000>> /\ timers' = timers + 1
            ELSE scheduled' = <<>> /\ timers' = timers
     /\ ~HandlerEnds => (timers' <= timers /\ scheduled' \in {scheduled, <<>>})]_vars

\* A stop command succeeded and its refresh is pending.
C20_Witness ==
  /\ result = Val(succeeded)
  /\ issued = <<Call("stop", "pve1")>>
  /\ scheduled = <<3000>>
  /\ timers = 1

----------------------------------------------------------------------------
(* C27 *)

\* The capabilities the metric fields cpu, memory and rootfs are reported in.
VitalCapabilities == {"measure_cpu", "measure_memory", "measure_disk"}

\* What would contradict the kind's rule after a node poll on `status`.
NodeRuleBroken(status) ==
  LET up == "uptime" \in DOMAIN status /\ status.uptime > 0
  IN  \/ cap'["onoff"] # Val(up)
      \/ /\ ~up
         /\ \/ \E c \in VitalCapabilities : cap'[c] # cap[c]
            \/ observed'[1].cpuPercent # 0
            \/ observed'[1].memPercent # 0

\* What would contradict the kind's rule after a guest poll on `status`.
GuestRuleBroken(status) == cap'["onoff"] # Val(status.status = "running")

\* C27: after every successful poll the on/off capability is the rule of the
\* device's kind applied to the fetched status: uptime > 0 for a node,
\* status = "running" for a container or a virtual machine.  A node that
\* answers uptime 0 (or none) is written off, its answer's cpu, memory and
\* disk fields are neither read (both percentages are taken as 0) nor
\* reported (the three capabilities keep their values).  Stated as: no poll
\* on a status ends in a state that breaks the rule for that status.
C27_OnOffFollowsKind ==
  [][SuccessfulPoll =>
       /\ data.type = "node" =>
            \A status \in NodeStatuses : NodeRuleBroken(status) => ~NodePollOf(status)
       /\ data.type \in {"lxc", "vm"} =>
            \A status \in GuestStatuses : GuestRuleBroken(status) => ~GuestPollOf(status)]_vars

\* A node whose earlier answers reported cpu, memory and disk has answered
\* uptime 0: it is off, and the three capabilities still hold the earlier
\* values.
C27_Witness ==
  /\ data.type = "node"
  /\ outcome = "ok"
  /\ cap["onoff"] = Val(FALSE)
  /\ observed # Null
  /\ observed[1].cpuPercent = 0
  /\ \A c \in VitalCapabilities : cap[c] # Null /\ cap[c][1] > 0

----------------------------------------------------------------------------
(* C28 *)

\* C28: every poll cycle of a storage device fetches the storage status (it
\* ends as a successful or as a failed fetch), writes on/off true exactly
\* when the fetch succeeded, raises alarm_generic and alarm_connectivity
\* when it failed, and never writes alarm_heat true.
C28_StorageCycle ==
  [][(cycle' # cycle /\ data.type = "storage") =>
       /\ outcome' \in {"ok", "error"}
       /\ cap'["onoff"] = Val(outcome' = "ok")
       /\ outcome' = "error" => /\ cap'["alarm_generic"] = Val(TRUE)
                                /\ cap'["alarm_connectivity"] = Val(TRUE)
       /\ cap'["alarm_heat"] # Val(TRUE)]_vars

----------------------------------------------------------------------------
(* C21 .. C25: scheduling and settings *)

\* C21: the poll cycles of one device never overlap: a device has at most
\* one cycle in flight, whichever of onInit, the interval timer, onSettings,
\* onRepair or the refresh timer starts the next.
C21_CyclesNeverOverlap == \A d \in Devices : fetching[d] <= 1

\* C22: while this device's first status request stays unanswered for ever,
\* the other device, unless it is deleted, ends poll cycles again and again.
C22_HungFetchStallsOnlyItsDevice ==
  <>[](fetching["this"] > 0 /\ lastCycle["this"] = "none")
    => (<>(phase["other"] = "deleted") \/ []<><<Completes("other")>>_vars)

\* This device's first request is still unanswered, none of its cycles has
\* ended, and the other device has ended a cycle with a status.
C22_Witness ==
  /\ fetching["this"] > 0
  /\ lastCycle["this"] = "none"
  /\ lastCycle["other"] = "ok"
  /\ fetching["other"] = 0

\* C23: a failed cycle does not stop the polling.  The step that ends a
\* cycle, failed or not, answers one request and issues none (no retry); a
\* failed cycle of a device leaves its timer set and the device as it was
\* (the error stays inside updateStatus); a timer is cleared by onDeleted
\* alone, so a device that is ready has its timer set; a step that starts a
\* cycle issues one request; and a cycle of this device that succeeds after
\* one that failed is a successful cycle like any other: on/off and the
\* connectivity alarm follow the status fetched.
C23_FailureKeepsPolling ==
  [][/\ \A d \in Devices :
          /\ fetching'[d] \in {fetching[d] - 1, fetching[d], fetching[d] + 1}
          /\ (fetching'[d] < fetching[d] /\ lastCycle'[d] = "error")
               => (pollInterval'[d] = pollInterval[d] /\ phase'[d] = phase[d])
          /\ (pollInterval[d] # Null /\ pollInterval'[d] = Null)
               => (phase[d] = "ready" /\ phase'[d] = "deleted")
          /\ phase[d] = "ready" => pollInterval[d] = Val(PollDelay)
     /\ FailedPoll => /\ fetching'["this"] = fetching["this"] - 1
                      /\ lastCycle'["this"] = "error"
                      /\ pollInterval' = pollInterval
     /\ (outcome = "error" /\ SuccessfulPoll)
          => /\ fetching'["this"] = fetching["this"] - 1
             /\ lastCycle'["this"] = "ok"
             /\ cap'["onoff"] = Val(observed'[1].isRunning)
             /\ cap'["alarm_connectivity"] = Val(~observed'[1].isRunning)]_vars

\* A cycle of this device has failed (alarm_generic is set), a later one
\* found the guest running, the timer is still set and no cycle is in
\* flight.
C23_Witness ==
  /\ cap["alarm_generic"] = Val(TRUE)
  /\ outcome = "ok"
  /\ cap["onoff"] = Val(TRUE)
  /\ cap["alarm_connectivity"] = Val(FALSE)
  /\ phase["this"] = "ready"
  /\ pollInterval["this"] # Null
  /\ fetching["this"] = 0

\* C24: a change of the configured polling interval clears the timer and
\* sets it with the new interval (30 s when none is configured), and leaves
\* the previous counters, the previous state and the threshold flags alone.
C24_IntervalFollowsSetting ==
  [][settings' # settings =>
       /\ pollInterval'["this"] =
            Val(IF settings'.pollingInterval = Null THEN 30000
                ELSE 1000 * settings'.pollingInterval[1])
       /\ previousCounters' = previousCounters
       /\ previousState' = previousState
       /\ thresholdTracking' = thresholdTracking]_vars

\* C25: the trigger and reset levels follow the device's configured
\* thresholds T (90, 90, 10, 50 when none is configured): at a successful
\* poll a card fires exactly when its value is above T with the flag clear,
\* and the flag is clear after a value at or below T - 5 (cpu, memory) or
\* 0.8 T (network, disk I/O).
C25_ThresholdsFollowSettings ==
  [][SuccessfulPoll =>
       LET T(setting, default) == IF setting = Null THEN default ELSE setting[1]
           cpuT == T(settings.cpuThreshold, 900)
           memT == T(settings.memoryThreshold, 900)
           netT == T(settings.networkThreshold, 1000)
           dioT == T(settings.diskIOThreshold, 5000)
       IN  /\ ("cpu_above_threshold" \in emitted')
                = (observed'[1].cpuPercent > cpuT /\ ~thresholdTracking.cpu.above)
           /\ observed'[1].cpuPercent <= cpuT - 50 => ~thresholdTracking'.cpu.above
           /\ ("memory_above_threshold" \in emitted')
                = (observed'[1].memPercent > memT /\ ~thresholdTracking.memory.above)
           /\ observed'[1].memPercent <= memT - 50 => ~thresholdTracking'.memory.above
           /\ ("high_network_traffic" \in emitted')
                = (ReportedNetwork(cap') > netT /\ ~thresholdTracking.network.above)
           /\ 10 * ReportedNetwork(cap') <= 8 * netT => ~thresholdTracking'.network.above
           /\ ("high_disk_io" \in emitted')
                = (ReportedDiskIO(cap') > dioT /\ ~thresholdTracking.diskIO.above)
           /\ 10 * ReportedDiskIO(cap') <= 8 * dioT => ~thresholdTracking'.diskIO.above]_vars

----------------------------------------------------------------------------
(* C26 *)

\* C26: the disk-space-low card fires when the free space (100 % less the
\* disk use reported) falls below 20 % while the low state is clear, as it
\* is when no disk use was reported before or the last one left more than
\* 25 % free; it fires at no poll that leaves 20 % or more free.
C26_DiskSpaceLowHysteresis ==
  [][(SuccessfulPoll /\ cap'["measure_disk"] # Null) =>
       LET free == 1000 - cap'["measure_disk"][1]
           wasClear == cap["measure_disk"] = Null \/ 1000 - cap["measure_disk"][1] > 250
       IN  /\ (free < 200 /\ wasClear) => "disk_space_low" \in emitted'
           /\ "disk_space_low" \in emitted' => free < 200]_vars

----------------------------------------------------------------------------
(* C29 *)

\* The devices of a list_devices result, as a set.
Offered(d) == {d.devices[k] : k \in 1..Len(d.devices)}

\* C29: findVMNode returns null (and raises nothing) when getNodes rejects;
\* otherwise it queries the nodes in list order, passes over a node whose
\* list request rejects or whose list lacks the vmid, and returns the first
\* node whose list holds it, null when none does, having then queried every
\* node.  list_devices fails only when getNodes rejects; otherwise it offers
\* every node and the guests of every list that was answered, whatever
\* other list requests rejected, and no guest of a node whose list request
\* rejected.
C29_PartialClusterFailure ==
  /\ located # Null =>
       LET a == answers[1]
           r == located[1].found
           type == located[1].type
           list(n) == IF type = "lxc" THEN a.lxc[n] ELSE a.vm[n]
           Has(n) == list(n) # Null /\ \E k \in 1..Len(list(n)[1]) :
                                          list(n)[1][k] = SearchedVmid(type)
       IN  IF a.nodes = Null
             THEN r.node = Null /\ r.queried = <<>>
             ELSE LET nodes == a.nodes[1]
                      hits == {i \in 1..Len(nodes) : Has(nodes[i])}
                  IN  IF hits = {}
                        THEN r.node = Null /\ r.queried = nodes
                        ELSE LET first == CHOOSE i \in hits : \A j \in hits : i <= j
                             IN  /\ r.node = Val(nodes[first])
                                 /\ r.queried = SubSeq(nodes, 1, first)
  /\ devices # Null =>
       LET a == answers[1]
           d == devices[1]
       IN  IF a.nodes = Null
             THEN ~d.ok /\ d.devices = <<>>
             ELSE LET nodes == a.nodes[1]
                      Guests(type, n, list) ==
                        IF list = Null THEN {}
                        ELSE {Device(type, n, Val(list[1][k]), Null) : k \in 1..Len(list[1])}
                  IN  /\ d.ok
                      /\ \A i \in 1..Len(nodes) :
                           /\ Device("node", nodes[i], Null, Null) \in Offered(d)
                           /\ Guests("lxc", nodes[i], a.lxc[nodes[i]]) \subseteq Offered(d)
                           /\ Guests("vm", nodes[i], a.vm[nodes[i]]) \subseteq Offered(d)
                      /\ \A x \in Offered(d) :
                           x.type \in {"lxc", "vm"} =>
                             \E i \in 1..Len(nodes) :
                               x \in Guests("lxc", nodes[i], a.lxc[nodes[i]])
                                       \cup Guests("vm", nodes[i], a.vm[nodes[i]])

\* The container list of the first node was not to be had: findVMNode went
\* on and found container 100 on the second node, and list_devices offers
\* both nodes and that container.
C29_Witness ==
  /\ answers # Null
  /\ located # Null
  /\ devices # Null
  /\ answers[1].nodes = Val(ClusterNodes)
  /\ answers[1].lxc[ClusterNodes[1]] = Null
  /\ located[1].type = "lxc"
  /\ located[1].found = [node |-> Val(ClusterNodes[2]), queried |-> ClusterNodes]
  /\ devices[1].ok
  /\ Device("lxc", ClusterNodes[2], Val(100), Null) \in Offered(devices[1])
  /\ Device("node", ClusterNodes[1], Null, Null) \in Offered(devices[1])

----------------------------------------------------------------------------
(* C30 *)

C37_UnreachableEveryFailure ==
  [][/\ FailedPoll => emitted' = {"device_unreachable"}
     /\ SuccessfulPoll => "device_unreachable" \notin emitted']_vars

\* A second failure in a row has fired the card again: an even number of
\* cycles have run, none of them succeeded, and the last one fired the card.
C37_Witness ==
  /\ data.type # "storage"
  /\ cycle = 0
  /\ outcome = "error"
  /\ observed = Null
  /\ cap["alarm_connectivity"] = Val(TRUE)
  /\ emitted = {"device_unreachable"}


\* C33: only a cycle that observes the entity running (a node: online) while
\* time has passed since the stored timestamp advances the previous sample,
\* and it moves the timestamp to the present.  Every other cycle (stopped or
\* offline, failed, or running with no time elapsed) leaves the four stored
\* counters and the stored timestamp as they were, so the next rate is taken
\* against the last running sample.
C33_OnlyRunningCycleAdvancesSample ==
  [][cycle' # cycle =>
       LET advances == /\ outcome' = "ok"
                       /\ observed'[1].isRunning
                       /\ sinceTimestamp > 0
       IN  /\ advances => sinceTimestamp' = 0
           /\ ~advances => /\ previousCounters' = previousCounters
                           /\ sinceTimestamp' = sinceTimestamp]_vars

\* A stopped cycle has ended with the sample of an earlier running cycle
\* still stored, a second old.
C33_Witness ==
  /\ outcome = "ok"
  /\ ~observed[1].isRunning
  /\ previousCounters.netin # Null
  /\ previousCounters.diskwrite # Null
  /\ sinceTimestamp = 1000


\* C39: a successful cycle that observes a container or a VM stopped leaves
\* all four `above` flags false.  Hence the first successful cycle after it
\* that observes the guest running with a CPU above 90 % fires the cpu-above
\* card, whatever the flag was before the stop.
C39_StoppedResetsFlags ==
  [][SuccessfulPoll /\ data.type \in {"lxc", "vm"} =>
       /\ ~observed'[1].isRunning =>
            \A k \in {"cpu", "memory", "network", "diskIO"} :
              ~thresholdTracking'[k].above
       /\ (/\ observed # Null
           /\ ~observed[1].isRunning
           /\ observed'[1].isRunning
           /\ observed'[1].cpuPercent > 900) =>
            /\ "cpu_above_threshold" \in emitted'
            /\ thresholdTracking'.cpu.above]_vars

\* The guest was observed stopped and then starting with a CPU above 90 %:
\* the started card and the cpu-above card fired in the same cycle.
C39_Witness ==
  /\ data.type \in {"lxc", "vm"}
  /\ outcome = "ok"
  /\ observed[1].isRunning
  /\ observed[1].cpuPercent > 900
  /\ {"vm_started", "cpu_above_threshold"} \subseteq emitted


\* Every counter that stays stored after the cycle on `status` was sampled
\* by that cycle.
SampledTogether(status) ==
  \A counter \in RateCounterNames :
    previousCounters'[counter] # Null => counter \in DOMAIN status

\* C35 as stated: the stored timestamp is the time at which every stored
\* non-null previous counter was sampled.  A cycle that moves the timestamp
\* to the present therefore leaves no counter stored that it did not sample,
\* also when its status omits a counter.
C35_OneTimestampForAllCounters ==
  [][(SuccessfulPoll /\ sinceTimestamp > 0 /\ sinceTimestamp' = 0) =>
       /\ \A status \in NodeStatuses : NodePollOf(status) => SampledTogether(status)
       /\ \A status \in GuestStatuses : GuestPollOf(status) => SampledTogether(status)]_vars


\* C34: once a restart request has found the guest on another node and
\* recorded it, data.node is the recorded node; every start, stop or restart
\* request that begins afterwards sends its first command to that node, and
\* every status fetch that succeeds afterwards was answered by that node.
C34_RecordedNodeIsUsed ==
  [][store.node # Null =>
       /\ data.node = store.node[1]
       /\ (pc = "idle" /\ pc' \in {"restart", "onoff"}) =>
            /\ Len(issued') = 1
            /\ issued'[1].node = store.node[1]
       /\ SuccessfulPoll => location = store.node]_vars

\* After the move to pve2 was recorded, the on/off listener sent a stop
\* command to pve2.
C34_Witness ==
  /\ store.node = Val("pve2")
  /\ data.node = "pve2"
  /\ request = Val([kind |-> "stop", via |-> "listener"])
  /\ issued = <<Call("stop", "pve2")>>


\* C38 as stated: once a device is deleted no poll cycle of it starts, that
\* is, no status request of it is issued any more, a refresh scheduled by a
\* command before the deletion included.
C38_NoCycleAfterDeletion ==
  [][\A d \in Devices :
       phase[d] = "deleted" => fetching'[d] <= fetching[d]]_vars


\* C31: setCredentials returns true only when host, tokenID and tokenSecret
\* are all non-empty, and then the setting holds them with the port given or
\* '8006'; whenever it returns false the setting is left as it was.
\* getCredentials returns none whenever the setting holds nothing complete,
\* and otherwise, the settings store answering, the setting itself: after a
\* setCredentials that returned true, the host, tokenID and tokenSecret it
\* was given, with the port it was given or '8006'.  Both calls return when
\* the settings store throws: false, and none.
C31_CredentialRoundTrip ==
  /\ [][returned' # returned =>
          LET call == returned'[1]
              given == call.argument
          IN  IF call.op = "set"
                THEN /\ call.result =>
                          /\ hasAll(given)
                          /\ stored' = Val([host |-> given[1].host,
                                            port |-> IF given[1].port \in {Null, Val("")}
                                                       THEN Val("8006")
                                                       ELSE given[1].port,
                                            tokenID |-> given[1].tokenID,
                                            tokenSecret |-> given[1].tokenSecret])
                     /\ ~call.result => stored' = stored
                     /\ (hasAll(given) /\ ~call.threw) => call.result
                ELSE /\ stored' = stored
                     /\ ~hasAll(stored) => call.value = Null
                     /\ (hasAll(stored) /\ ~call.threw) => call.value = stored]_vars
  /\ [](/\ returned # Null
        /\ returned[1].op = "get"
        /\ ~returned[1].threw
        /\ accepted # Null
        => /\ returned[1].value # Null
           /\ returned[1].value[1].host = accepted[1].host
           /\ returned[1].value[1].tokenID = accepted[1].tokenID
           /\ returned[1].value[1].tokenSecret = accepted[1].tokenSecret
           /\ returned[1].value[1].port =
                (IF accepted[1].port \in {Null, Val("")} THEN Val("8006")
                                                          ELSE accepted[1].port))

\* Credentials without a port were accepted, and getCredentials has returned
\* them with the port '8006'.
C31_Witness ==
  /\ accepted # Null
  /\ accepted[1].port = Null
  /\ returned # Null
  /\ returned[1].op = "get"
  /\ returned[1].value # Null
  /\ returned[1].value[1].port = Val("8006")
  /\ returned[1].value[1].host = Val("pve.lan")


\* The fields and capability values of this device.
ThisDevice ==
  <<cap, previousCounters, sinceTimestamp, previousState, thresholdTracking, emitted,
    outcome, observed>>

\* C32: a poll cycle of one device, whether it succeeds or fails, changes
\* nothing of any other device: not its previous sample, its `above` flags,
\* its previous run state, nor its reported values.
C32_CycleTouchesOwnDeviceOnly ==
  [][/\ cycle' # cycle => peer' = peer
     /\ peer'.cycle # peer.cycle => ThisDevice' = ThisDevice]_vars

\* Both devices hold a previous sample and a raised cpu flag of their own,
\* and the cycle of the other device that ended last failed while this
\* device's succeeded.
C32_Witness ==
  /\ outcome = "ok"
  /\ peer.outcome = "error"
  /\ thresholdTracking.cpu.above
  /\ ~peer.thresholdTracking.cpu.above
  /\ previousCounters.netin # Null
  /\ peer.previousCounters.netin # Null
  /\ previousCounters.netin # peer.previousCounters.netin

\* C36: the started and the stopped card alternate: no cycle fires the one
\* that fired last.  A failed cycle fires neither and leaves the recorded
\* run state alone, so a successful cycle fires stopped exactly when the
\* successful cycle before it saw the guest running and it sees it stopped,
\* and started in the opposite case, however many cycles failed in between.
C36_RunEventsAlternate ==
  [][cycle' # cycle =>
       /\ "vm_started" \in emitted' => lastRunEvent # "started"
       /\ "vm_stopped" \in emitted' => lastRunEvent # "stopped"
       /\ ~({"vm_started", "vm_stopped"} \subseteq emitted')
       /\ FailedPoll =>
            /\ emitted' \cap {"vm_started", "vm_stopped"} = {}
            /\ previousState' = previousState
       /\ SuccessfulPoll =>
            /\ ("vm_stopped" \in emitted')
                 = (observed # Null /\ observed[1].isRunning /\ ~observed'[1].isRunning)
            /\ ("vm_started" \in emitted')
                 = (observed # Null /\ ~observed[1].isRunning /\ observed'[1].isRunning)]_vars

\* The stopped card fired after the started card had, at the first
\* successful cycle after a failed one.
C36_Witness ==
  /\ lastRunEvent = "stopped"
  /\ "vm_stopped" \in emitted
  /\ outcome = "ok"
  /\ cap["alarm_generic"] = Val(TRUE)
  /\ previousCounters.netin # Null


\* The card of each tracker.
TrackerCard ==
  [cpu |-> "cpu_above_threshold", memory |-> "memory_above_threshold",
   network |-> "high_network_traffic", diskIO |-> "high_disk_io"]

============================================================================
